---------------------------- MODULE Spec2Model ----------------------------
(***************************************************************************)
(* A model of the bytecode-equivalence tools under tools/compare:          *)
(*   compare.py        pairs the units of an original and a recompiled     *)
(*                     artifact, scores them and gives a verdict;          *)
(*   compare_dir.py    run_compare, which runs compare.py as a child       *)
(*                     process under a timeout;                            *)
(*   locate_mismatch.py, unit_diff.py   their use of a scratch directory;  *)
(*   emit_min.py       the delta-debugging minimizer (main and ddmin).     *)
(*                                                                         *)
(* Floating-point metrics are modelled as exact rationals [num, den] in    *)
(* lowest terms; on the inputs enumerated here the float results of the    *)
(* program are the same rationals.                                         *)
(***************************************************************************)
EXTENDS Integers, Sequences, FiniteSets, TLC

(***************************************************************************)
(* Bounds of the model.                                                    *)
(***************************************************************************)
\* longest unit list of an artifact
MaxUnits == 2
\* longest module body handed to the minimizer
MaxBody == 4

(***************************************************************************)
(* Rational arithmetic standing for the program's floats.                  *)
(***************************************************************************)
RECURSIVE GCD(_, _)
GCD(a, b) == IF b = 0 THEN a ELSE GCD(b, a % b)

Q(n, d) == LET g == GCD(n, d) IN
           IF n = 0 THEN [num |-> 0, den |-> 1]
                    ELSE [num |-> n \div g, den |-> d \div g]

QZero == Q(0, 1)
QOne == Q(1, 1)
QAdd(x, y) == Q(x.num * y.den + y.num * x.den, x.den * y.den)
QDivInt(x, k) == Q(x.num, x.den * k)
QLt(x, y) == x.num * y.den < y.num * x.den
QGe(x, y) == x.num * y.den >= y.num * x.den

Min2(a, b) == IF a < b THEN a ELSE b
Max2(a, b) == IF a > b THEN a ELSE b

RECURSIVE SumOver(_, _)
SumOver(S, f) == IF S = {} THEN 0
                 ELSE LET x == CHOOSE y \in S : TRUE
                      IN f[x] + SumOver(S \ {x}, f)

\* dict.get(k, 0)
Get0(d, k) == IF k \in DOMAIN d THEN d[k] ELSE 0

(***************************************************************************)
(* compare.py: the metrics.                                                *)
(***************************************************************************)
\* difflib.SequenceMatcher.find_longest_match on a[alo..ahi), b[blo..bhi)
\* (0-based, no junk): the longest common block, the one starting earliest
\* in a and, among those, earliest in b; size 0 when nothing matches.
BlockLen(a, b, i, j, ahi, bhi) ==
    LET Ks == {k \in 0..Min2(ahi - i, bhi - j) :
                 \A t \in 0..(k - 1) : a[i + t + 1] = b[j + t + 1]}
    IN CHOOSE k \in Ks : \A m \in Ks : m <= k

find_longest_match(a, b, alo, ahi, blo, bhi) ==
    LET Cands == {<<i, j>> \in (alo..(ahi - 1)) \X (blo..(bhi - 1)) :
                    a[i + 1] = b[j + 1]}
        Size(c) == BlockLen(a, b, c[1], c[2], ahi, bhi)
        Better(c, e) == \/ Size(c) > Size(e)
                        \/ Size(c) = Size(e) /\ c[1] < e[1]
                        \/ Size(c) = Size(e) /\ c[1] = e[1] /\ c[2] <= e[2]
    IN IF Cands = {} THEN <<alo, blo, 0>>
       ELSE LET best == CHOOSE c \in Cands : \A e \in Cands : Better(c, e)
            IN <<best[1], best[2], Size(best)>>

\* the total size of SequenceMatcher.get_matching_blocks
RECURSIVE MatchTotal(_, _, _, _, _, _)
MatchTotal(a, b, alo, ahi, blo, bhi) ==
    IF alo >= ahi \/ blo >= bhi THEN 0
    ELSE LET m == find_longest_match(a, b, alo, ahi, blo, bhi)
         IN IF m[3] = 0 THEN 0
            ELSE m[3] + MatchTotal(a, b, alo, m[1], blo, m[2])
                      + MatchTotal(a, b, m[1] + m[3], ahi, m[2] + m[3], bhi)

\* a plausible slip: the two tests for emptiness in the other order
seq_ratio_EmptyFirst(a, b) ==
    IF Len(a) = 0 \/ Len(b) = 0 THEN QZero
    ELSE IF Len(a) = 0 /\ Len(b) = 0 THEN QOne
    ELSE Q(2 * MatchTotal(a, b, 0, Len(a), 0, Len(b)), Len(a) + Len(b))

seq_ratio(a, b) ==
    IF Len(a) = 0 /\ Len(b) = 0 THEN QOne
    ELSE IF Len(a) = 0 \/ Len(b) = 0 THEN QZero
    ELSE Q(2 * MatchTotal(a, b, 0, Len(a), 0, Len(b)), Len(a) + Len(b))

\* a plausible slip: the empty/empty case scored 0
count_jaccard_EmptyZero(a, b) ==
    LET keys == DOMAIN a \cup DOMAIN b
        inter == SumOver(keys, [k \in keys |-> Min2(Get0(a, k), Get0(b, k))])
        union == SumOver(keys, [k \in keys |-> Max2(Get0(a, k), Get0(b, k))])
    IN IF keys = {} THEN QZero
       ELSE IF union # 0 THEN Q(inter, union) ELSE QOne

count_jaccard(a, b) ==
    LET keys == DOMAIN a \cup DOMAIN b
        inter == SumOver(keys, [k \in keys |-> Min2(Get0(a, k), Get0(b, k))])
        union == SumOver(keys, [k \in keys |-> Max2(Get0(a, k), Get0(b, k))])
    IN IF keys = {} THEN QOne
       ELSE IF union # 0 THEN Q(inter, union) ELSE QOne

multiset_jaccard(a, b) == count_jaccard(a, b)

\* (0.4 * block_j) + (0.6 * edge_j)
semantic_score(block_j, edge_j) ==
    QAdd(Q(4 * block_j.num, 10 * block_j.den), Q(6 * edge_j.num, 10 * edge_j.den))

\* the keys a unit's meta may carry, in sorted order; None is a missing key
MetaKeys == <<"argcount", "flags">>
None == -1
MetaGet(m, k) == IF k \in DOMAIN m THEN m[k] ELSE None

meta_diff(a, b) ==
    SelectSeq(MetaKeys, LAMBDA k : /\ k \in DOMAIN a \cup DOMAIN b
                                   /\ MetaGet(a, k) # MetaGet(b, k))


\* a plausible slip: the meta check left out of the tier
TierOf_NoMeta(exact, meta_mismatch, block_j, edge_j, a) ==
    IF exact THEN "exact"
    ELSE IF QGe(block_j, a.min_block_jaccard) /\ QGe(edge_j, a.min_edge_jaccard)
         THEN "semantic_equiv"
         ELSE "mismatch"

\* the tier of a row
TierOf(exact, meta_mismatch, block_j, edge_j, a) ==
    IF exact THEN "exact"
    ELSE IF /\ meta_mismatch = <<>>
            /\ QGe(block_j, a.min_block_jaccard)
            /\ QGe(edge_j, a.min_edge_jaccard)
         THEN "semantic_equiv"
         ELSE "mismatch"

\* a plausible slip: exactness tested before the missing units
VerdictOf_ExactFirst(total_count, missing, exact_units, avg, min_ratio, a) ==
    IF total_count = 0 THEN "mismatch"
    ELSE IF exact_units = total_count THEN "exact"
    ELSE IF missing # <<>> THEN "mismatch"
    ELSE IF /\ QGe(avg.ratio, a.avg_ratio)
            /\ QGe(min_ratio, a.min_unit_ratio)
            /\ QGe(avg.jaccard, a.min_count_jaccard)
            /\ QGe(avg.block_j, a.min_block_jaccard)
            /\ QGe(avg.edge_j, a.min_edge_jaccard)
            /\ QGe(avg.semantic, a.min_semantic_score)
         THEN "close"
         ELSE "mismatch"

\* the overall verdict
VerdictOf(total_count, missing, exact_units, avg, min_ratio, a) ==
    IF total_count = 0 THEN "mismatch"
    ELSE IF missing # <<>> THEN "mismatch"
    ELSE IF exact_units = total_count THEN "exact"
    ELSE IF /\ QGe(avg.ratio, a.avg_ratio)
            /\ QGe(min_ratio, a.min_unit_ratio)
            /\ QGe(avg.jaccard, a.min_count_jaccard)
            /\ QGe(avg.block_j, a.min_block_jaccard)
            /\ QGe(avg.edge_j, a.min_edge_jaccard)
            /\ QGe(avg.semantic, a.min_semantic_score)
         THEN "close"
         ELSE "mismatch"

\* comp_map: for each path of the candidate, the positions (1-based) of the
\* units with that path, in the candidate's order
comp_map(units) ==
    [p \in {units[j].path : j \in DOMAIN units} |->
        SelectSeq([j \in DOMAIN units |-> j], LAMBDA j : units[j].path = p)]

\* a plausible slip: the candidates not kept by path
Candidates_AnyPath(units, path) == [j \in DOMAIN units |-> j]

\* comp_map.get(path)
Candidates(units, path) ==
    IF path \in DOMAIN comp_map(units) THEN comp_map(units)[path] ELSE <<>>

\* a plausible slip: the first candidate taken whatever the occurrence
PickOther_First(candidates, idx) == candidates[1]

\* candidates[idx], idx counted from 0
PickOther(candidates, idx) == candidates[idx + 1]

(***************************************************************************)
(* The inputs: units as analyze_xdis.py prints them, and the arguments.    *)
(***************************************************************************)
Dict1(k, v) == k :> v
NoDict == <<>>

UnitM == [path |-> "<module>",
          norm_ops |-> <<"const:none", "return">>,
          op_counts |-> ("const" :> 1) @@ ("return" :> 1),
          block_sig_counts |-> Dict1("bm", 1),
          edge_sig_counts |-> NoDict,
          meta |-> ("argcount" :> 0) @@ ("flags" :> 0)]

UnitFA == [path |-> "<module>.f",
           norm_ops |-> <<"branch:jump", "const:int:1", "return">>,
           op_counts |-> ("branch" :> 1) @@ ("const" :> 1) @@ ("return" :> 1),
           block_sig_counts |-> ("b1" :> 1) @@ ("b2" :> 1),
           edge_sig_counts |-> ("b1:cond:b2" :> 1) @@ ("b1:fallthrough:b2" :> 1),
           meta |-> ("argcount" :> 1) @@ ("flags" :> 3)]

\* as UnitFA with another constant: another second block, other edges
UnitFB == [path |-> "<module>.f",
           norm_ops |-> <<"branch:jump", "const:int:2", "return">>,
           op_counts |-> ("branch" :> 1) @@ ("const" :> 1) @@ ("return" :> 1),
           block_sig_counts |-> ("b1" :> 1) @@ ("b3" :> 1),
           edge_sig_counts |-> ("b1:cond:b3" :> 1) @@ ("b1:fallthrough:b3" :> 1),
           meta |-> ("argcount" :> 1) @@ ("flags" :> 3)]

\* as UnitFA, a generator: only the flags differ
UnitFG == [UnitFA EXCEPT !.meta = ("argcount" :> 1) @@ ("flags" :> 35)]

\* the units an artifact may hold; an artifact's unit list is kept as the
\* list of their names, and UnitOf gives the unit a name stands for
UnitPool == {"M", "FA", "FB", "FG"}
UnitOf(u) == CASE u = "M" -> UnitM
               [] u = "FA" -> UnitFA
               [] u = "FB" -> UnitFB
               [] u = "FG" -> UnitFG

\* the unit list of a disassembly
UnitsOf(data) == [j \in DOMAIN data.units |-> UnitOf(data.units[j])]

\* lines 295-305 of main for a unit and its counterpart
ScorePair(unit, other) ==
    LET ratio == seq_ratio(unit.norm_ops, other.norm_ops)
        jac == count_jaccard(unit.op_counts, other.op_counts)
        block_j == multiset_jaccard(unit.block_sig_counts, other.block_sig_counts)
        edge_j == multiset_jaccard(unit.edge_sig_counts, other.edge_sig_counts)
    IN [len_orig |-> Len(unit.norm_ops), len_comp |-> Len(other.norm_ops),
        ratio |-> ratio, jac |-> jac, block_j |-> block_j, edge_j |-> edge_j,
        semantic |-> semantic_score(block_j, edge_j),
        exact |-> unit.norm_ops = other.norm_ops,
        meta_mismatch |-> meta_diff(unit.meta, other.meta)]

RECURSIVE SeqsUpTo(_, _)
SeqsUpTo(S, n) ==
    IF n = 0 THEN {<<>>}
    ELSE LET shorter == SeqsUpTo(S, n - 1)
         IN shorter \cup {Append(s, x) : s \in {t \in shorter : Len(t) = n - 1}, x \in S}

UnitLists == SeqsUpTo(UnitPool, MaxUnits)

OrigVersions == {<<3, 9>>}
CompVersions == {<<3, 9>>, <<3, 12>>}

\* parse_args: the default thresholds
DefaultArgs == [avg_ratio |-> Q(97, 100), min_unit_ratio |-> Q(90, 100),
                min_count_jaccard |-> Q(95, 100), min_block_jaccard |-> Q(95, 100),
                min_edge_jaccard |-> Q(95, 100), min_semantic_score |-> Q(95, 100)]

\* thresholds given on the command line
LenientArgs == [avg_ratio |-> Q(1, 2), min_unit_ratio |-> Q(1, 2),
                min_count_jaccard |-> Q(1, 2), min_block_jaccard |-> Q(1, 4),
                min_edge_jaccard |-> Q(0, 1), min_semantic_score |-> Q(1, 10)]

ArgsChoices == {DefaultArgs, LenientArgs}


(***************************************************************************)
(* State.                                                                  *)
(***************************************************************************)
VARIABLES
    \* the running tool: its name, where it stands, its arguments
    tool, pc, keep_temp, args,
    \* the process: exit status (NoExit while running), whether its scratch
    \* directory exists, and the kind of failure that ended it
    exit_code, scratch, failure,
    \* compare.py: the two disassemblies, the loop over the original's units
    orig_data, comp_data, i, comp_seen, rows, missing, acc, report,
    \* compare_dir.run_compare: whether it runs the tool, and what it returns
    driver, result,
    \* emit_min.py: the candidate module, the target and the search
    body, target_path, max_iter, keep_idx, removable, n, iters, subsets, k,
    removed, answers, written, stop,
    \* analyze_xdis.py and lib.collect_paths: the module's code object, the
    \* units the analyzer prints, the paths collect_paths returns
    code, out, paths,
    \* analyze_xdis.block_invariants: the block's instructions and the
    \* depth, max_depth and min_depth of its loop
    block, inv,
    \* analyze_xdis.walk over objects with identity: the calls of walk that
    \* have not returned
    frames,
    \* emit_min.same_unit on loaded code objects: what it is called with, and
    \* what it returns
    su, same,
    \* compare.main's sums and minimum of one metric as the floats they are:
    \* the metric of each compared unit, and total, minimum and count
    fvals, facc,
    \* compare_dir.main: the .pyc files found, and results, counts and
    \* processed of its loop, the worst lists and the summary
    batch,
    \* analyze_xdis.stack_delta: the opcode table's entry for the opname,
    \* the instruction, and the delta returned
    opc, instr, delta,
    \* compare.seq_ratio: the two token sequences and the ratio returned
    seq_a, seq_b, ratio,
    \* analyze_xdis.analyze_code: the instructions of the unit, and the
    \* blocks, edges and cfg_sig computed from them
    instrs, cfg

procVars == <<tool, pc, keep_temp, args, exit_code, scratch, failure>>
cmpVars == <<orig_data, comp_data, i, comp_seen, rows, missing, acc, report>>
drvVars == <<driver, result>>
minVars == <<body, target_path, max_iter, keep_idx, removable, n, iters, subsets, k,
             removed, answers, written, stop>>
retVars == <<su, same, fvals, facc, batch>>
blkVars == <<block, inv, frames, retVars>>
anaVars == <<code, out, paths, blkVars>>
fnVars == <<opc, instr, delta, seq_a, seq_b, ratio, instrs, cfg>>
vars == <<procVars, cmpVars, drvVars, minVars, anaVars, fnVars>>

\* exit_code is <<>> while the process runs and <<status>> once it has ended
NoExit == <<>>
\* the status of a child killed by subprocess.run when its timeout expires
Killed == -9

\* the values the variables of a tool that is not running keep
IdleCmp ==
    /\ orig_data = <<>> /\ comp_data = <<>> /\ i = 0 /\ comp_seen = <<>>
    /\ rows = <<>> /\ missing = <<>> /\ acc = <<>> /\ report = <<>>
IdleDrv == driver = FALSE /\ result = <<>>
IdleRet == su = <<>> /\ same = <<>> /\ fvals = <<>> /\ facc = <<>> /\ batch = <<>>
IdleBlk == block = <<>> /\ inv = <<>> /\ frames = <<>> /\ IdleRet
IdleAna == code = <<>> /\ out = <<>> /\ paths = <<>> /\ IdleBlk
IdleStack == opc = <<>> /\ instr = <<>> /\ delta = <<>>
IdleRatio == seq_a = <<>> /\ seq_b = <<>> /\ ratio = <<>>
IdleCfg == instrs = <<>> /\ cfg = <<>>
IdleFn == IdleStack /\ IdleRatio /\ IdleCfg
IdleMin ==
    /\ body = <<>> /\ target_path = "" /\ max_iter = 0 /\ keep_idx = {}
    /\ removable = <<>> /\ n = 0 /\ iters = 0 /\ subsets = <<>> /\ k = 0
    /\ removed = FALSE /\ answers = <<>> /\ written = <<>> /\ stop = ""

(***************************************************************************)
(* How a tool's main ends.  A return gives status 0, SystemExit(message)   *)
(* and an uncaught exception give 1, SystemExit(rc) gives rc.              *)
(***************************************************************************)
\* the non-zero return codes of a child considered
ChildRcs == {1, 2}

\* compile_source: run_cmd does not catch TimeoutExpired, and a non-zero
\* return code becomes SystemExit(returncode)
compile_source(outcome, rc) ==
    IF outcome = "timeout" THEN [raise |-> TRUE, status |-> 1]
    ELSE IF outcome = "nonzero" THEN [raise |-> TRUE, status |-> rc]
    ELSE [raise |-> FALSE, status |-> 0]

\* disassemble_with_xdis: as compile_source, then json.loads of the output
disassemble_with_xdis(outcome, rc) ==
    IF outcome = "timeout" THEN [raise |-> TRUE, status |-> 1]
    ELSE IF outcome = "nonzero" THEN [raise |-> TRUE, status |-> rc]
    ELSE [raise |-> FALSE, status |-> 0]

FailOutcomes == {"nonzero", "timeout"}

\* compare.py's finally clause
CompareFinally == IF keep_temp THEN scratch ELSE FALSE

\* a plausible slip: the error of an external step swallowed
CompareAbort_Swallowed(outcome, status) ==
    /\ pc' = "exit"
    /\ exit_code' = <<0>>
    /\ failure' = outcome
    /\ scratch' = CompareFinally

\* an external step of compare.py raised: the finally clause runs, then the
\* process ends with the status
CompareAbort(outcome, status) ==
    /\ pc' = "exit"
    /\ exit_code' = <<status>>
    /\ failure' = outcome
    /\ scratch' = CompareFinally


(***************************************************************************)
(* compare.py main.                                                        *)
(***************************************************************************)
InitAcc == [total_ratio |-> QZero, total_jaccard |-> QZero, total_block_j |-> QZero,
            total_edge_j |-> QZero, total_semantic |-> QZero, total_count |-> 0,
            min_ratio |-> QOne, min_jaccard |-> QOne, min_block_j |-> QOne,
            min_edge_j |-> QOne, min_semantic |-> QOne, exact_units |-> 0]

\* the tool is started by hand, or by run_compare, which passes neither
\* thresholds nor --keep-temp
InitCompare ==
    /\ tool = "compare" /\ pc = "start"
    /\ driver \in BOOLEAN
    /\ keep_temp \in (IF driver THEN {FALSE} ELSE BOOLEAN)
    /\ args \in (IF driver THEN {DefaultArgs} ELSE ArgsChoices)
    /\ exit_code = NoExit /\ scratch = FALSE /\ failure = "none"
    /\ result = <<>>
    /\ IdleCmp /\ IdleMin /\ IdleAna /\ IdleFn

\* the inputs exist and an interpreter with xdis is found: the scratch
\* directory is made
CompareStartOk ==
    /\ tool = "compare" /\ pc = "start"
    /\ pc' = "disasm_orig"
    /\ scratch' = TRUE
    /\ UNCHANGED <<tool, keep_temp, args, exit_code, failure, cmpVars, drvVars, fnVars,
                   anaVars, minVars>>

\* an input is missing, or no interpreter has xdis: SystemExit(message)
CompareStartFail ==
    /\ tool = "compare" /\ pc = "start"
    /\ \E why \in {"missing_input", "no_xdis"} : failure' = why
    /\ pc' = "exit"
    /\ exit_code' = <<1>>
    /\ UNCHANGED <<tool, keep_temp, args, scratch, cmpVars, drvVars, fnVars, anaVars,
                   minVars>>

\* orig_data = disassemble_with_xdis(orig)
DisasmOrig ==
    /\ tool = "compare" /\ pc = "disasm_orig"
    /\ \/ /\ ~disassemble_with_xdis("ok", 0).raise
          /\ \E ver \in OrigVersions, units \in UnitLists :
                 orig_data' = [version |-> ver, units |-> units]
          /\ pc' = "compile"
          /\ UNCHANGED <<exit_code, scratch, failure>>
       \/ /\ \E outcome \in FailOutcomes, rc \in ChildRcs :
                 /\ disassemble_with_xdis(outcome, rc).raise
                 /\ CompareAbort(outcome, disassemble_with_xdis(outcome, rc).status)
          /\ UNCHANGED orig_data
    /\ UNCHANGED <<tool, keep_temp, args, comp_data, i, comp_seen, rows, missing, acc,
                   report, drvVars, fnVars, anaVars, minVars>>

\* compile_source(py, src, compiled_pyc)
CompileSource ==
    /\ tool = "compare" /\ pc = "compile"
    /\ \/ /\ ~compile_source("ok", 0).raise
          /\ pc' = "disasm_comp"
          /\ UNCHANGED <<exit_code, scratch, failure>>
       \/ \E outcome \in FailOutcomes, rc \in ChildRcs :
              /\ compile_source(outcome, rc).raise
              /\ CompareAbort(outcome, compile_source(outcome, rc).status)
    /\ UNCHANGED <<tool, keep_temp, args, cmpVars, drvVars, fnVars, anaVars, minVars>>

\* comp_data = disassemble_with_xdis(compiled_pyc)
DisasmComp ==
    /\ tool = "compare" /\ pc = "disasm_comp"
    /\ \/ /\ ~disassemble_with_xdis("ok", 0).raise
          /\ \E ver \in CompVersions, units \in UnitLists :
                 comp_data' = [version |-> ver, units |-> units]
          /\ pc' = "gate"
          /\ UNCHANGED <<exit_code, scratch, failure>>
       \/ /\ \E outcome \in FailOutcomes, rc \in ChildRcs :
                 /\ disassemble_with_xdis(outcome, rc).raise
                 /\ CompareAbort(outcome, disassemble_with_xdis(outcome, rc).status)
          /\ UNCHANGED comp_data
    /\ UNCHANGED <<tool, keep_temp, args, orig_data, i, comp_seen, rows, missing, acc,
                   report, drvVars, fnVars, anaVars, minVars>>


\* the stub report of the version gate
StubSummary ==
    [version_mismatch |-> TRUE, units_compared |-> 0, units_missing |-> <<>>,
     avg_seq_ratio |-> QZero, avg_count_jaccard |-> QZero, avg_block_jaccard |-> QZero,
     avg_edge_jaccard |-> QZero, avg_semantic_score |-> QZero,
     min_seq_ratio |-> QZero, min_count_jaccard |-> QZero, min_block_jaccard |-> QZero,
     min_edge_jaccard |-> QZero, min_semantic_score |-> QZero,
     exact_units |-> 0, verdict |-> "mismatch"]

\* a plausible slip: the gate never taken
VersionsDiffer_Never(o, c) == FALSE

\* version_mismatch = orig_data["version"] != comp_data["version"]
VersionsDiffer(o, c) == o.version # c.version

\* the version gate: a stub report and a return when the versions differ,
\* else the loop's variables are set up
VersionGate ==
    /\ tool = "compare" /\ pc = "gate"
    /\ IF VersionsDiffer(orig_data, comp_data)
       THEN /\ report' = <<[verdict |-> "mismatch", summary |-> StubSummary, rows |-> <<>>]>>
            /\ pc' = "exit"
            /\ exit_code' = <<0>>
            /\ scratch' = CompareFinally
            /\ UNCHANGED <<i, comp_seen, rows, missing, acc>>
       ELSE /\ pc' = "loop"
            /\ i' = 0 /\ comp_seen' = <<>> /\ rows' = <<>> /\ missing' = <<>>
            /\ acc' = InitAcc
            /\ UNCHANGED <<report, exit_code, scratch>>
    /\ UNCHANGED <<tool, keep_temp, args, failure, orig_data, comp_data, drvVars, fnVars,
                   anaVars, minVars>>

QMinOf(x, y) == IF QLt(x, y) THEN x ELSE y

\* one pass of "for unit in orig_data['units']"
\* a plausible slip: the new row put first
rows_append_First(rs, row) == <<row>> \o rs

\* rows.append(...)
rows_append(rs, row) == Append(rs, row)

LoopStep ==
    /\ tool = "compare" /\ pc = "loop"
    /\ i < Len(orig_data.units)
    /\ LET unit == UnitOf(orig_data.units[i + 1])
           path == unit.path
           idx == Get0(comp_seen, path)
       IN \E candidates \in {Candidates(UnitsOf(comp_data), path)} :
          /\ i' = i + 1
          /\ comp_seen' = (path :> (idx + 1)) @@ comp_seen
          /\ IF candidates = <<>> \/ idx >= Len(candidates)
             THEN /\ missing' = Append(missing, path)
                  /\ UNCHANGED <<rows, acc>>
             ELSE \E ci \in {PickOther(candidates, idx)} :
                  \E sc \in {ScorePair(unit, UnitOf(comp_data.units[ci]))} :
                  \E tier \in {TierOf(sc.exact, sc.meta_mismatch, sc.block_j,
                                      sc.edge_j, args)} :
                     /\ acc' = [total_ratio |-> QAdd(acc.total_ratio, sc.ratio),
                                total_jaccard |-> QAdd(acc.total_jaccard, sc.jac),
                                total_block_j |-> QAdd(acc.total_block_j, sc.block_j),
                                total_edge_j |-> QAdd(acc.total_edge_j, sc.edge_j),
                                total_semantic |-> QAdd(acc.total_semantic, sc.semantic),
                                total_count |-> acc.total_count + 1,
                                min_ratio |-> QMinOf(sc.ratio, acc.min_ratio),
                                min_jaccard |-> QMinOf(sc.jac, acc.min_jaccard),
                                min_block_j |-> QMinOf(sc.block_j, acc.min_block_j),
                                min_edge_j |-> QMinOf(sc.edge_j, acc.min_edge_j),
                                min_semantic |-> QMinOf(sc.semantic, acc.min_semantic),
                                exact_units |-> acc.exact_units
                                                  + (IF sc.exact THEN 1 ELSE 0)]
                     /\ rows' = rows_append(rows,
                            [path |-> path,
                             len_orig |-> sc.len_orig,
                             len_comp |-> sc.len_comp,
                             seq_ratio |-> sc.ratio,
                             count_jaccard |-> sc.jac,
                             block_jaccard |-> sc.block_j,
                             edge_jaccard |-> sc.edge_j,
                             semantic_score |-> sc.semantic,
                             exact |-> sc.exact,
                             tier |-> tier,
                             meta_mismatch |-> sc.meta_mismatch,
                             \* not in the report: the positions of the two
                             \* units the row was computed from
                             oi |-> i + 1,
                             ci |-> ci])
                     /\ UNCHANGED missing
    /\ UNCHANGED <<procVars, orig_data, comp_data, report, drvVars, fnVars, anaVars,
                   minVars>>

\* after the loop: the averages, the verdict, the report; then the finally
\* clause and the return
Finish ==
    /\ tool = "compare" /\ pc = "loop"
    /\ i = Len(orig_data.units)
    /\ LET tc == acc.total_count
           Avg(t) == IF tc # 0 THEN QDivInt(t, tc) ELSE QZero
           MinOr0(m) == IF tc # 0 THEN m ELSE QZero
           avg == [ratio |-> Avg(acc.total_ratio), jaccard |-> Avg(acc.total_jaccard),
                   block_j |-> Avg(acc.total_block_j), edge_j |-> Avg(acc.total_edge_j),
                   semantic |-> Avg(acc.total_semantic)]
           verdict == VerdictOf(tc, missing, acc.exact_units, avg, acc.min_ratio, args)
           summary ==
               [units_compared |-> tc,
                units_missing |-> missing,
                avg_seq_ratio |-> avg.ratio, avg_count_jaccard |-> avg.jaccard,
                avg_block_jaccard |-> avg.block_j, avg_edge_jaccard |-> avg.edge_j,
                avg_semantic_score |-> avg.semantic,
                min_seq_ratio |-> MinOr0(acc.min_ratio),
                min_count_jaccard |-> MinOr0(acc.min_jaccard),
                min_block_jaccard |-> MinOr0(acc.min_block_j),
                min_edge_jaccard |-> MinOr0(acc.min_edge_j),
                min_semantic_score |-> MinOr0(acc.min_semantic),
                exact_units |-> acc.exact_units, verdict |-> verdict]
       IN report' = <<[verdict |-> verdict, summary |-> summary, rows |-> rows]>>
    /\ pc' = "exit"
    /\ exit_code' = <<0>>
    /\ scratch' = CompareFinally
    /\ UNCHANGED <<tool, keep_temp, args, failure, orig_data, comp_data, i, comp_seen, rows,
                   missing, acc, drvVars, fnVars, anaVars, minVars>>


(***************************************************************************)
(* compare_dir.py: run_compare, around compare.py as its child.            *)
(***************************************************************************)
\* a plausible slip: a timeout reported as a mismatch
run_compare_TimeoutMismatch(timed_out, returncode, stdout) ==
    IF timed_out
    THEN [verdict |-> "mismatch", error |-> "timeout", rows |-> <<>>]
    ELSE IF returncode # 0
    THEN [verdict |-> "error", error |-> "compare failed", rows |-> <<>>]
    ELSE IF stdout # <<>>
    THEN [verdict |-> stdout[1].verdict, error |-> "", rows |-> stdout[1].rows]
    ELSE [verdict |-> "error", error |-> "invalid json", rows |-> <<>>]

\* what run_compare returns: error is summary.error ("" when the summary
\* has no such key); stdout is <<>> or the one report the child printed
run_compare(timed_out, returncode, stdout) ==
    IF timed_out
    THEN [verdict |-> "error", error |-> "timeout", rows |-> <<>>]
    ELSE IF returncode # 0
    THEN [verdict |-> "error", error |-> "compare failed", rows |-> <<>>]
    ELSE IF stdout # <<>>
    THEN [verdict |-> stdout[1].verdict, error |-> "", rows |-> stdout[1].rows]
    ELSE [verdict |-> "error", error |-> "invalid json", rows |-> <<>>]

\* subprocess.run's timeout expires while the child runs: the child is
\* killed where it stands, its finally clause does not run
DriverTimeout ==
    /\ tool = "compare" /\ driver
    /\ pc \notin {"exit", "killed"}
    /\ pc' = "killed"
    /\ exit_code' = <<Killed>>
    /\ UNCHANGED <<tool, keep_temp, args, scratch, failure, cmpVars, drvVars, fnVars,
                   anaVars, minVars>>

\* the child has ended: run_compare returns
DriverCollect ==
    /\ tool = "compare" /\ driver
    /\ pc \in {"exit", "killed"}
    /\ result = <<>>
    /\ result' = <<run_compare(pc = "killed", exit_code[1], report)>>
    /\ UNCHANGED <<procVars, cmpVars, driver, minVars, anaVars, fnVars>>

NextCompare ==
    \/ CompareStartOk \/ CompareStartFail
    \/ DisasmOrig \/ CompileSource \/ DisasmComp
    \/ VersionGate \/ LoopStep \/ Finish
    \/ DriverTimeout \/ DriverCollect

SpecCompare == InitCompare /\ [][NextCompare]_vars

(***************************************************************************)
(* emit_min.py: main, ddmin and same_unit.  A top-level statement of the   *)
(* candidate is known by its kind; statements are numbered from 0.         *)
(***************************************************************************)
\* the module docstring (a string expression, first in the body), a
\* "from __future__" import, a def named f, any other statement
StmtKinds == {"doc", "future", "def_f", "other"}

\* the candidate bodies: a string expression that is not first is one of
\* the other statements
Bodies == {b \in SeqsUpTo(StmtKinds, MaxBody) : \A j \in 2..Len(b) : b[j] # "doc"}

TargetPaths == {"<module>", "<module>.f"}

\* --max-iter: its default, and smaller values
DefaultMaxIter == 200
MaxIterChoices == {1, 2, DefaultMaxIter}

\* --index: -1, its default, for no index; else the occurrence asked for
IndexChoices == {-1, 0, 1}

target_parts(path) == IF path = "<module>" THEN <<>> ELSE <<"f">>

\* item.name of a statement that is a def, "" for any other statement
DefName(node) == IF node = "def_f" THEN "f" ELSE ""

\* the index of the top-level statement find_target stops at: the first
\* def with the name, None when there is none
find_target(b, parts) ==
    LET S == {j \in DOMAIN b : DefName(b[j]) = parts[1]}
    IN IF S = {} THEN None ELSE (CHOOSE j \in S : \A m \in S : j <= m) - 1

is_future_import(node) == node = "future"

module_docstring_index(b) == IF b # <<>> /\ b[1] = "doc" THEN 0 ELSE -1

\* main's keep_idx
KeepIdx(b, path) ==
    LET doc_idx == module_docstring_index(b)
        parts == target_parts(path)
    IN (IF doc_idx >= 0 THEN {doc_idx} ELSE {})
       \cup {j - 1 : j \in {m \in DOMAIN b : is_future_import(b[m])}}
       \cup (IF parts # <<>> THEN {find_target(b, parts)} ELSE {})

\* removable = [i for i in range(len(module.body)) if i not in keep_idx]
Removable(b, keep) ==
    SelectSeq([j \in DOMAIN b |-> j - 1], LAMBDA x : x \notin keep)

SeqSet(seq) == {seq[j] : j \in DOMAIN seq}

\* build_module: the kept statements in the order of the body
build_module(b, keep) ==
    SelectSeq([j \in DOMAIN b |-> j - 1], LAMBDA x : x \in keep)

\* the matches the walk of find_code_by_path collects in the module made of
\* the kept statements: the module's own code object (no statement, -1)
\* for "<module>", and for "<module>.f" the code object of every def f, by
\* its statement, in the order of the body
PathMatches(b, keep, path) ==
    IF path = "<module>" THEN << -1 >>
    ELSE SelectSeq(build_module(b, keep), LAMBDA x : DefName(b[x + 1]) = "f")

\* lib.find_code_by_path: the position in matches of the match returned,
\* 0 for None.  Every match here has the target as its whole path, so
\* "exact" is matches
find_code_by_path(matches, index) ==
    IF matches = <<>> THEN 0
    ELSE IF index >= 0
    THEN (IF index >= Len(matches) THEN 0 ELSE index + 1)
    ELSE IF Len(matches) = 1 THEN 1
    ELSE 0

\* ddmin's subsets: slices of removable of length size
Subsets(rem, parts_n) ==
    LET size == Max2(1, Len(rem) \div parts_n)
        cnt == (Len(rem) + size - 1) \div size
    IN [c \in 1..cnt |-> SubSeq(rem, (c - 1) * size + 1, Min2(c * size, Len(rem)))]

\* cand_keep: keep_idx and the removable indices outside the subset
CandKeep(keep, rem, subset) == keep \cup (SeqSet(rem) \ SeqSet(subset))

\* lib.compile_source, as compare.py's
lib_compile_source(outcome, rc) ==
    IF outcome = "timeout" THEN [raise |-> TRUE, status |-> 1]
    ELSE IF outcome = "nonzero" THEN [raise |-> TRUE, status |-> rc]
    ELSE [raise |-> FALSE, status |-> 0]

\* same_unit: the recompilation may raise; else the answer is False when
\* the path and index find no unit in the recompiled source, and otherwise
\* whether that unit has the original's instructions
same_unit(outcome, rc, comp_match, truth) ==
    IF lib_compile_source(outcome, rc).raise
    THEN [raise |-> TRUE, status |-> lib_compile_source(outcome, rc).status,
          value |-> FALSE]
    ELSE [raise |-> FALSE, status |-> 0, value |-> comp_match # 0 /\ truth]

\* what same_unit can say of the module made of the kept statements
Answers(b, keep, path, index) ==
    IF find_code_by_path(PathMatches(b, keep, path), index) = 0
    THEN {FALSE} ELSE BOOLEAN

\* a plausible slip: the filter of removable inverted
RemovableWithout_Inverted(rem, subset) ==
    SelectSeq(rem, LAMBDA x : x \in SeqSet(subset))

\* removable = [i for i in removable if i not in subset]
RemovableWithout(rem, subset) ==
    SelectSeq(rem, LAMBDA x : x \notin SeqSet(subset))

\* a plausible slip: the search given up one refinement early
FinestPartition_Early(parts_n, rem) == parts_n * 2 >= Len(rem)

\* "if n >= len(removable): break"
FinestPartition(parts_n, rem) == parts_n >= Len(rem)

\* a plausible slip: n doubled without the cap by the removable statements
refined_n_Uncapped(parts_n, rem) == parts_n * 2

\* "n = min(len(removable), n * 2)"
refined_n(parts_n, rem) == Min2(Len(rem), parts_n * 2)

\* the candidate, the target and the cap are given; answers holds what
\* same_unit says of a set of kept statements, to begin with of the whole
\* candidate, which no run tests
InitMin ==
    /\ tool = "emit_min" /\ pc = "start"
    /\ keep_temp = FALSE /\ args \in [index : IndexChoices]
    /\ exit_code = NoExit /\ scratch = FALSE /\ failure = "none"
    /\ body \in Bodies
    /\ target_path \in TargetPaths
    /\ max_iter \in MaxIterChoices
    /\ \E truth \in Answers(body, 0..(Len(body) - 1), target_path, args.index) :
          answers = ((0..(Len(body) - 1)) :> truth)
    /\ keep_idx = {} /\ removable = <<>> /\ n = 0 /\ iters = 0 /\ subsets = <<>>
    /\ k = 0 /\ removed = FALSE /\ written = <<>> /\ stop = ""
    /\ IdleCmp /\ IdleDrv /\ IdleFn /\ IdleAna

\* main up to the call of ddmin; with nothing removable the source text is
\* written as it is
MinStart ==
    /\ tool = "emit_min" /\ pc = "start"
    /\ \/ /\ \E why \in {"missing_input", "no_xdis", "bad_path"} : failure' = why
          /\ pc' = "exit" /\ exit_code' = <<1>>
          /\ UNCHANGED <<keep_idx, removable, n, iters, written, stop>>
       \/ /\ target_parts(target_path) # <<>>
          /\ find_target(body, target_parts(target_path)) = None
          /\ failure' = "missing_target"
          /\ pc' = "exit" /\ exit_code' = <<1>>
          /\ UNCHANGED <<keep_idx, removable, n, iters, written, stop>>
       \/ /\ target_parts(target_path) # <<>>
                => find_target(body, target_parts(target_path)) # None
          /\ keep_idx' = KeepIdx(body, target_path)
          /\ removable' = Removable(body, keep_idx')
          /\ IF removable' = <<>>
             THEN /\ written' = <<[j \in DOMAIN body |-> j - 1]>>
                  /\ stop' = "nothing"
                  /\ pc' = "exit" /\ exit_code' = <<0>>
                  /\ UNCHANGED <<n, iters>>
             ELSE /\ n' = 2 /\ iters' = 0
                  /\ pc' = "ddmin"
                  /\ UNCHANGED <<written, stop, exit_code>>
          /\ UNCHANGED failure
    /\ UNCHANGED <<tool, keep_temp, args, scratch, cmpVars, drvVars, fnVars, anaVars, body,
                   target_path, max_iter, subsets, k, removed, answers>>

\* ddmin returns final_keep, and main writes the module built from it
DdminReturn(reason) ==
    /\ written' = <<build_module(body, keep_idx \cup SeqSet(removable))>>
    /\ stop' = reason
    /\ pc' = "exit" /\ exit_code' = <<0>>

\* "while removable and iters < max_iter": a pass begins, or ddmin returns
DdminLoop ==
    /\ tool = "emit_min" /\ pc = "ddmin"
    /\ IF removable # <<>> /\ iters < max_iter
       THEN /\ iters' = iters + 1
            /\ subsets' = Subsets(removable, n)
            /\ removed' = FALSE
            /\ k' = 1
            /\ pc' = "test"
            /\ UNCHANGED <<written, stop, exit_code>>
       ELSE /\ DdminReturn(IF removable = <<>> THEN "empty" ELSE "cap")
            /\ UNCHANGED <<iters, subsets, removed, k>>
    /\ UNCHANGED <<tool, keep_temp, args, scratch, failure, cmpVars, drvVars, fnVars,
                   anaVars, body, target_path, max_iter, keep_idx, removable, n, answers>>

\* "for subset in subsets": the candidate without the subset is written to
\* a file and same_unit makes its scratch directory
SameUnitEnter ==
    /\ tool = "emit_min" /\ pc = "test"
    /\ scratch' = TRUE
    /\ pc' = "same_unit"
    /\ UNCHANGED <<tool, keep_temp, args, exit_code, failure, cmpVars, drvVars, fnVars,
                   anaVars, minVars>>

\* same_unit ends, its finally clause removing the scratch directory; then
\* the rest of the pass of the for loop and, after the last subset, the
\* "if not removed" of the while loop
SameUnitLeave ==
    /\ tool = "emit_min" /\ pc = "same_unit"
    /\ scratch' = FALSE
    /\ \E cand \in {CandKeep(keep_idx, removable, subsets[k])} :
       \/ \E outcome \in FailOutcomes, rc \in ChildRcs :
             /\ same_unit(outcome, rc, 0, FALSE).raise
             /\ failure' = outcome
             /\ pc' = "exit"
             /\ exit_code' = <<same_unit(outcome, rc, 0, FALSE).status>>
             /\ UNCHANGED <<removable, removed, n, k, answers, written, stop>>
       \/ \E comp_match \in {find_code_by_path(PathMatches(body, cand, target_path),
                                                 args.index)},
             truth \in (IF cand \in DOMAIN answers THEN {answers[cand]}
                        ELSE Answers(body, cand, target_path, args.index)) :
             /\ ~same_unit("ok", 0, comp_match, truth).raise
             /\ answers' = (cand :> same_unit("ok", 0, comp_match, truth).value) @@ answers
             /\ UNCHANGED failure
             /\ IF same_unit("ok", 0, comp_match, truth).value
                THEN /\ removable' = RemovableWithout(removable, subsets[k])
                     /\ removed' = TRUE
                     /\ n' = 2
                     /\ pc' = "ddmin"
                     /\ UNCHANGED <<k, written, stop, exit_code>>
                ELSE IF k < Len(subsets)
                THEN /\ k' = k + 1
                     /\ pc' = "test"
                     /\ UNCHANGED <<removable, removed, n, written, stop, exit_code>>
                ELSE IF FinestPartition(n, removable)
                THEN /\ DdminReturn("break")
                     /\ UNCHANGED <<removable, removed, n, k>>
                ELSE /\ n' = refined_n(n, removable)
                     /\ pc' = "ddmin"
                     /\ UNCHANGED <<removable, removed, k, written, stop, exit_code>>
    /\ UNCHANGED <<tool, keep_temp, args, cmpVars, drvVars, fnVars, anaVars, body,
                   target_path, max_iter, keep_idx, iters, subsets>>

NextMin == MinStart \/ DdminLoop \/ SameUnitEnter \/ SameUnitLeave

SpecMin == InitMin /\ [][NextMin]_vars

(***************************************************************************)
(* analyze_xdis.py: the walk over the nested code objects, and             *)
(* lib.collect_paths over the same module.                                 *)
(***************************************************************************)
MaxConsts == 2

\* the names of the nested code objects
CoNames == {"f", "g"}

\* a constant that is no code object
NotCode == [value |-> 0]

CodeObject(name, consts) == [co_name |-> name, co_consts |-> consts, co_code |-> TRUE]

\* the code objects compiled from a module: functions without nested
\* code, functions whose constants hold such functions, and the module
LeafCodes == {CodeObject(nm, <<>>) : nm \in CoNames}
InnerCodes ==
    {CodeObject(nm, cs) : nm \in CoNames,
                          cs \in SeqsUpTo(LeafCodes \cup {NotCode}, MaxConsts - 1)}
ModuleCodes ==
    {CodeObject("<module>", cs) : cs \in SeqsUpTo(InnerCodes \cup {NotCode}, MaxConsts)}

\* hasattr(c, "co_code")
hasattr_co_code(c) == "co_code" \in DOMAIN c

\* analyze_code: the unit, known by its path and the code object it is
\* computed from
analyze_code(obj, path) == [path |-> path, of |-> obj]

\* a plausible slip: the constants walked before the unit is appended
RECURSIVE walk_ChildrenFirst(_, _), walk_ChildrenFirst_consts(_, _, _)
walk_ChildrenFirst_consts(obj, path, j) ==
    IF j > Len(obj.co_consts) THEN <<>>
    ELSE (IF hasattr_co_code(obj.co_consts[j])
          THEN walk_ChildrenFirst(obj.co_consts[j],
                                  path \o "." \o obj.co_consts[j].co_name)
          ELSE <<>>)
         \o walk_ChildrenFirst_consts(obj, path, j + 1)
walk_ChildrenFirst(obj, path) ==
    walk_ChildrenFirst_consts(obj, path, 1) \o <<analyze_code(obj, path)>>

\* analyze_xdis.walk: what it appends to out; walk_consts is its for loop
\* from the j-th constant on
RECURSIVE walk(_, _), walk_consts(_, _, _)
walk_consts(obj, path, j) ==
    IF j > Len(obj.co_consts) THEN <<>>
    ELSE (IF hasattr_co_code(obj.co_consts[j])
          THEN walk(obj.co_consts[j], path \o "." \o obj.co_consts[j].co_name)
          ELSE <<>>)
         \o walk_consts(obj, path, j + 1)
walk(obj, path) == <<analyze_code(obj, path)>> \o walk_consts(obj, path, 1)

\* lib.collect_paths: its inner walk, and the call
RECURSIVE collect_paths_walk(_, _), collect_paths_consts(_, _, _)
collect_paths_consts(obj, path, j) ==
    IF j > Len(obj.co_consts) THEN <<>>
    ELSE (IF hasattr_co_code(obj.co_consts[j])
          THEN collect_paths_walk(obj.co_consts[j],
                                  path \o "." \o obj.co_consts[j].co_name)
          ELSE <<>>)
         \o collect_paths_consts(obj, path, j + 1)
collect_paths_walk(obj, path) == <<path>> \o collect_paths_consts(obj, path, 1)
collect_paths(obj) == collect_paths_walk(obj, obj.co_name)

\* the module's code object is given
InitAnalyze ==
    /\ tool = "analyze_xdis" /\ pc = "start"
    /\ keep_temp = FALSE /\ args = <<>>
    /\ exit_code = NoExit /\ scratch = FALSE /\ failure = "none"
    /\ code \in ModuleCodes
    /\ out = <<>> /\ paths = <<>> /\ IdleBlk
    /\ IdleCmp /\ IdleDrv /\ IdleFn /\ IdleMin

\* analyze_xdis.main: the walk from the module's code object
AnalyzeMain ==
    /\ tool = "analyze_xdis" /\ pc = "start"
    /\ out' = walk(code, code.co_name)
    /\ pc' = "analyzed"
    /\ UNCHANGED <<tool, keep_temp, args, exit_code, scratch, failure, cmpVars, drvVars,
                   fnVars, minVars, code, paths, blkVars>>

\* lib.collect_paths called on the same code object
CollectPaths ==
    /\ tool = "analyze_xdis" /\ pc = "analyzed"
    /\ paths' = collect_paths(code)
    /\ pc' = "exit" /\ exit_code' = <<0>>
    /\ UNCHANGED <<tool, keep_temp, args, scratch, failure, cmpVars, drvVars, fnVars,
                   minVars, code, out, blkVars>>

NextAnalyze == AnalyzeMain \/ CollectPaths

SpecAnalyze == InitAnalyze /\ [][NextAnalyze]_vars

(***************************************************************************)
(* analyze_xdis.walk over code objects that have an identity: the loaded   *)
(* module is a set of objects, co_consts refers to objects, so that one    *)
(* object can be a constant of two objects, or of itself.  The recursion   *)
(* is kept as the frames of the calls; Python ends it with RecursionError  *)
(* when the frames reach the recursion limit.                              *)
(***************************************************************************)
MaxObjs == 2
MaxDepth == 4

ObjIds == 1..MaxObjs

\* in co_consts: a reference to a code object, or a constant that is none
NoCodeConst == 0

\* the loaded objects: object 1 is the module, every other one is named f
Heaps ==
    [ObjIds -> UNION {[1..len -> ObjIds \cup {NoCodeConst}] : len \in 0..MaxConsts}]

heap_co_name(id) == IF id = 1 THEN "<module>" ELSE "f"

\* hasattr(c, "co_code")
heap_hasattr_co_code(c) == c \in ObjIds

InitWalk ==
    /\ tool = "analyze_xdis_walk" /\ pc = "start"
    /\ keep_temp = FALSE /\ args = <<>>
    /\ exit_code = NoExit /\ scratch = FALSE /\ failure = "none"
    /\ code \in Heaps
    /\ out = <<>> /\ paths = <<>> /\ block = <<>> /\ inv = <<>> /\ frames = <<>>
    /\ IdleRet
    /\ IdleCmp /\ IdleDrv /\ IdleFn /\ IdleMin

\* main: walk(code, opc, code.co_name, out), whose first statement appends
\* the unit of the module
WalkMain ==
    /\ tool = "analyze_xdis_walk" /\ pc = "start"
    /\ frames' = <<[obj |-> 1, path |-> heap_co_name(1), at |-> 0]>>
    /\ out' = <<analyze_code(1, heap_co_name(1))>>
    /\ pc' = "walk"
    /\ UNCHANGED <<tool, keep_temp, args, exit_code, scratch, failure, cmpVars, drvVars,
                   fnVars, minVars, code, paths, block, inv, retVars>>

\* one pass of "for c in code.co_consts" in the innermost call: a constant
\* with co_code is walked, which appends its unit, unless the frames have
\* reached the limit
WalkConst ==
    /\ tool = "analyze_xdis_walk" /\ pc = "walk"
    /\ \E top \in {frames[Len(frames)]} :
          /\ top.at < Len(code[top.obj])
          /\ \E c \in {code[top.obj][top.at + 1]} :
             \E rest \in {[frames EXCEPT ![Len(frames)].at = top.at + 1]} :
                IF ~heap_hasattr_co_code(c)
                THEN /\ frames' = rest
                     /\ UNCHANGED <<out, pc, exit_code, failure>>
                ELSE IF Len(frames) >= MaxDepth
                THEN /\ failure' = "RecursionError"
                     /\ exit_code' = <<1>>
                     /\ pc' = "exit"
                     /\ frames' = <<>>
                     /\ UNCHANGED out
                ELSE /\ frames' = Append(rest, [obj |-> c, at |-> 0,
                                                path |-> top.path \o "." \o heap_co_name(c)])
                     /\ out' = Append(out, analyze_code(c, top.path \o "." \o heap_co_name(c)))
                     /\ UNCHANGED <<pc, exit_code, failure>>
    /\ UNCHANGED <<tool, keep_temp, args, scratch, cmpVars, drvVars, fnVars, minVars,
                   code, paths, block, inv, retVars>>

\* the loop of the innermost call is over: it returns, and the return of
\* the outermost one lets main print the units
WalkReturn ==
    /\ tool = "analyze_xdis_walk" /\ pc = "walk"
    /\ frames[Len(frames)].at = Len(code[frames[Len(frames)].obj])
    /\ frames' = SubSeq(frames, 1, Len(frames) - 1)
    /\ IF Len(frames) = 1
       THEN pc' = "exit" /\ exit_code' = <<0>>
       ELSE UNCHANGED <<pc, exit_code>>
    /\ UNCHANGED <<tool, keep_temp, args, scratch, failure, cmpVars, drvVars, fnVars,
                   minVars, code, out, paths, block, inv, retVars>>

NextWalk == WalkMain \/ WalkConst \/ WalkReturn

SpecWalk == InitWalk /\ [][NextWalk]_vars

(***************************************************************************)
(* emit_min.same_unit on two loaded modules, with lib.find_code_by_path    *)
(* and lib.norm_argrepr.  A path is the sequence of its names, so that     *)
(* path.endswith("." + target) says that target is a shorter end of path.  *)
(* An argrepr is the sequence of its pieces: a text, a hexadecimal         *)
(* address (0x...) or a line (", line N").                                 *)
(***************************************************************************)
TextPiece(t) == [text |-> t]
HexPiece(a) == [hex |-> a]
LinePiece(l) == [line |-> l]

\* the argrepr of a constant that is the code object f
CodeObjectRepr(addr, lineno) ==
    <<TextPiece("<code object f at "), HexPiece(addr), TextPiece(", file m.py"),
      LinePiece(lineno), TextPiece(">")>>

\* "code object" in argrepr
contains_code_object(argrepr) ==
    \E j \in DOMAIN argrepr :
       "text" \in DOMAIN argrepr[j] /\ argrepr[j].text = "<code object f at "

norm_argrepr(argrepr) ==
    IF argrepr = <<>> THEN argrepr
    ELSE IF contains_code_object(argrepr)
    THEN [j \in DOMAIN argrepr |->
            IF "hex" \in DOMAIN argrepr[j] THEN TextPiece("0x?")
            ELSE IF "line" \in DOMAIN argrepr[j] THEN TextPiece(", line ?")
            ELSE argrepr[j]]
    ELSE argrepr

inst_key(inst) == <<inst.opname, norm_argrepr(inst.argrepr)>>

Inst(opname, argrepr) == [opname |-> opname, argrepr |-> argrepr]

\* the instruction lists of the functions: two of equal length that differ
\* in an argrepr, and a longer one
FnInstrs ==
    {<<Inst("LOAD_CONST", <<TextPiece("1")>>)>>,
     <<Inst("LOAD_CONST", <<TextPiece("2")>>)>>,
     <<Inst("LOAD_CONST", <<TextPiece("1")>>), Inst("RETURN_VALUE", <<>>)>>}

\* the code objects of a module: functions f, alone or with one nested f,
\* and the module that holds up to MaxConsts of them or other constants
LoadedCode(name, consts, insts) == [co_name |-> name, co_consts |-> consts, co_code |-> insts]

LoadedLeaves == {LoadedCode("f", <<>>, c) : c \in FnInstrs}
LoadedInner ==
    {LoadedCode("f", <<x>>, <<Inst("LOAD_CONST", <<TextPiece("1")>>)>>) : x \in LoadedLeaves}
LoadedModules ==
    {LoadedCode("<module>", cs, <<Inst("RETURN_VALUE", <<>>)>>) :
        cs \in SeqsUpTo(LoadedLeaves \cup LoadedInner \cup {NotCode}, MaxConsts)}

\* the versions of the two artifacts
LoadedVersions == {<<3, 8>>, <<3, 9>>}

\* the paths asked for: whole paths, and ends of paths
SamePaths == {<<"<module>">>, <<"<module>", "f">>, <<"f">>, <<"f", "f">>}

\* index: None, or the occurrence asked for
SameIndexes == {None, 0, 1}

\* path == target or path.endswith("." + target)
path_matches(path, target) ==
    /\ Len(target) <= Len(path)
    /\ SubSeq(path, Len(path) - Len(target) + 1, Len(path)) = target

\* lib.find_code_by_path: the matches its walk appends
RECURSIVE lib_walk(_, _, _), lib_walk_consts(_, _, _, _)
lib_walk_consts(obj, path, target, j) ==
    IF j > Len(obj.co_consts) THEN <<>>
    ELSE (IF hasattr_co_code(obj.co_consts[j])
          THEN lib_walk(obj.co_consts[j], Append(path, obj.co_consts[j].co_name), target)
          ELSE <<>>)
         \o lib_walk_consts(obj, path, target, j + 1)
lib_walk(obj, path, target) ==
    (IF path_matches(path, target) THEN <<[path |-> path, obj |-> obj]>> ELSE <<>>)
        \o lib_walk_consts(obj, path, target, 1)

\* lib.find_code_by_path: the match returned, <<>> for None
lib_find_code_by_path(obj, target, index) ==
    LET matches == lib_walk(obj, <<obj.co_name>>, target)
        exact == SelectSeq(matches, LAMBDA x : x.path = target)
    IN IF matches = <<>> THEN <<>>
       ELSE IF index # None
       THEN (IF index < 0 \/ index >= Len(matches) THEN <<>> ELSE <<matches[index + 1]>>)
       ELSE IF Len(matches) = 1 THEN <<matches[1]>>
       ELSE IF Len(exact) = 1 THEN <<exact[1]>>
       ELSE <<>>

\* "for a, b in zip(orig_instrs, comp_instrs)" after the test of the lengths
same_instrs(orig_instrs, comp_instrs) ==
    /\ Len(orig_instrs) = Len(comp_instrs)
    /\ \A j \in DOMAIN orig_instrs : inst_key(orig_instrs[j]) = inst_key(comp_instrs[j])

\* same_unit from the loading of the compiled module on
same_unit_loaded(call) ==
    IF call.comp_ver # call.orig_ver THEN FALSE
    ELSE LET orig_match == lib_find_code_by_path(call.orig_code, call.path, call.index)
         IN IF orig_match = <<>> THEN FALSE
            ELSE LET comp_match ==
                         lib_find_code_by_path(call.comp_code, orig_match[1].path, call.index)
                 IN IF comp_match = <<>> THEN FALSE
                    ELSE same_instrs(orig_match[1].obj.co_code, comp_match[1].obj.co_code)

\* the original, the module compiled from the candidate, the path and the
\* index are given
InitSameUnit ==
    /\ tool = "same_unit" /\ pc = "start"
    /\ keep_temp = FALSE /\ args = <<>>
    /\ exit_code = NoExit /\ scratch = FALSE /\ failure = "none"
    /\ su \in [orig_code : LoadedModules, orig_ver : {<<3, 8>>},
                comp_code : LoadedModules, comp_ver : LoadedVersions,
                path : SamePaths, index : SameIndexes]
    /\ same = <<>> /\ fvals = <<>> /\ facc = <<>> /\ batch = <<>>
    /\ code = <<>> /\ out = <<>> /\ paths = <<>>
    /\ block = <<>> /\ inv = <<>> /\ frames = <<>>
    /\ IdleCmp /\ IdleDrv /\ IdleFn /\ IdleMin

\* same_unit returns
SameUnitReturn ==
    /\ tool = "same_unit" /\ pc = "start"
    /\ same' = <<same_unit_loaded(su)>>
    /\ pc' = "exit"
    /\ UNCHANGED <<tool, keep_temp, args, exit_code, scratch, failure, cmpVars, drvVars,
                   fnVars, minVars, code, out, paths, block, inv, frames, su, fvals,
                   facc, batch>>

NextSameUnit == SameUnitReturn

SpecSameUnit == InitSameUnit /\ [][NextSameUnit]_vars

(***************************************************************************)
(* The sums, minimum and average of one metric in compare.main, computed   *)
(* in the program's floats.  A float (IEEE 754 binary64, rounding to       *)
(* nearest, ties to even) of value v, 1/16 <= v < 8 or v = 0, is the       *)
(* sequence of the bits of v * 2^FracBits, most significant bit first.     *)
(***************************************************************************)
MantBits == 53
WholeBits == 3
FracBits == 56
GuardBits == 3

Zeros(len) == [j \in 1..len |-> 0]

FloatZero == Zeros(WholeBits + FracBits)
FloatOne == Zeros(WholeBits - 1) \o <<1>> \o Zeros(FracBits)

\* the sum of two bit sequences of one length: a carry enters bit j when
\* a lower bit is 1 in both and every bit between is 1 in just one
CarryInto(a, b, j) ==
    \E t \in (j + 1)..Len(a) :
       a[t] + b[t] = 2 /\ \A u \in (j + 1)..(t - 1) : a[u] + b[u] = 1

BitsAdd(a, b) ==
    [j \in DOMAIN a |-> (a[j] + b[j] + (IF CarryInto(a, b, j) THEN 1 ELSE 0)) % 2]

\* the bits of a quotient: r / d continued for cnt bits, and what is left
DivBits(r, d, cnt) ==
    LET rem[j \in 0..cnt] == IF j = 0 THEN r ELSE (2 * rem[j - 1]) % d
    IN [j \in 1..cnt |-> (2 * rem[j - 1]) \div d]
DivRem(r, d, cnt) ==
    LET rem[j \in 0..cnt] == IF j = 0 THEN r ELSE (2 * rem[j - 1]) % d
    IN rem[cnt]

\* the bits of a / c for a bit sequence a, and what is left
LongDiv(a, c) ==
    LET rem[j \in 0..Len(a)] == IF j = 0 THEN 0 ELSE (2 * rem[j - 1] + a[j]) % c
    IN [j \in 1..Len(a) |-> (2 * rem[j - 1] + a[j]) \div c]
LongRem(a, c) ==
    LET rem[j \in 0..Len(a)] == IF j = 0 THEN 0 ELSE (2 * rem[j - 1] + a[j]) % c
    IN rem[Len(a)]

\* the result of a float operation whose exact value has the bits x, and
\* more below them if sticky: the MantBits bits from the first 1 on are
\* kept and rounded to nearest, a tie to the even one
float_round(x, sticky) ==
    IF \A j \in DOMAIN x : x[j] = 0 THEN FloatZero
    ELSE LET first == CHOOSE j \in DOMAIN x : x[j] = 1 /\ \A t \in 1..(j - 1) : x[t] = 0
             last == first + MantBits - 1
         IN IF last >= Len(x) THEN SubSeq(x, 1, WholeBits + FracBits)
            ELSE LET kept == [j \in DOMAIN x |-> IF j <= last THEN x[j] ELSE 0]
                     rest == sticky \/ \E j \in (last + 2)..Len(x) : x[j] = 1
                     up == x[last + 1] = 1 /\ (rest \/ x[last] = 1)
                     ulp == [j \in DOMAIN x |-> IF j = last THEN 1 ELSE 0]
                 IN SubSeq(IF up THEN BitsAdd(kept, ulp) ELSE kept,
                           1, WholeBits + FracBits)

\* a / b for two integers, 0 <= a < 2 ^ WholeBits * b, as Python's true division and
\* 2.0 * matches / length give it
float_of_ratio(a, b) ==
    float_round([j \in 1..WholeBits |-> ((a \div b) \div 2 ^ (WholeBits - j)) % 2]
                    \o DivBits(a % b, b, FracBits + GuardBits),
                DivRem(a % b, b, FracBits + GuardBits) # 0)

\* x + y
float_add(x, y) == float_round(BitsAdd(x, y), FALSE)

\* total / total_count
float_div_int(x, c) ==
    float_round(LongDiv(x \o Zeros(GuardBits), c),
                LongRem(x \o Zeros(GuardBits), c) # 0)

\* x < y
float_lt(x, y) ==
    \E j \in DOMAIN x : x[j] < y[j] /\ \A t \in 1..(j - 1) : x[t] = y[t]

\* the values a metric takes on a unit: matches over lengths, and counts
\* in common over counts in all
MaxRows == 3
MetricPool == {<<0, 1>>, <<1, 2>>, <<2, 3>>, <<7, 10>>, <<1, 1>>}

\* "if ratio < min_ratio: min_ratio = ratio"
min_step(m, x) == IF float_lt(x, m) THEN x ELSE m

\* the metric of every compared unit is given
InitAccum ==
    /\ tool = "compare_accum" /\ pc = "loop"
    /\ keep_temp = FALSE /\ args = <<>>
    /\ exit_code = NoExit /\ scratch = FALSE /\ failure = "none"
    /\ \E vs \in SeqsUpTo(MetricPool, MaxRows) :
          fvals = [j \in DOMAIN vs |-> float_of_ratio(vs[j][1], vs[j][2])]
    /\ facc = [total |-> FloatZero, min |-> FloatOne, count |-> 0]
    /\ su = <<>> /\ same = <<>> /\ batch = <<>>
    /\ code = <<>> /\ out = <<>> /\ paths = <<>>
    /\ block = <<>> /\ inv = <<>> /\ frames = <<>>
    /\ IdleCmp /\ IdleDrv /\ IdleFn /\ IdleMin

\* the pass of the loop for a compared unit: total += x, total_count += 1,
\* and the minimum follows
AccumStep ==
    /\ tool = "compare_accum" /\ pc = "loop"
    /\ facc.count < Len(fvals)
    /\ \E x \in {fvals[facc.count + 1]} :
          facc' = [total |-> float_add(facc.total, x),
                   min |-> min_step(facc.min, x),
                   count |-> facc.count + 1]
    /\ UNCHANGED <<procVars, cmpVars, drvVars, fnVars, minVars, code, out, paths, block,
                   inv, frames, su, same, fvals, batch>>

\* after the loop: the average, and the minimum as the summary gives it
AccumFinish ==
    /\ tool = "compare_accum" /\ pc = "loop"
    /\ facc.count = Len(fvals)
    /\ facc' = [avg |-> IF facc.count # 0 THEN float_div_int(facc.total, facc.count)
                         ELSE FloatZero,
                min |-> IF facc.count # 0 THEN facc.min ELSE FloatZero,
                count |-> facc.count]
    /\ pc' = "exit"
    /\ UNCHANGED <<tool, keep_temp, args, exit_code, scratch, failure, cmpVars, drvVars,
                   fnVars, minVars, code, out, paths, block, inv, frames, su, same, fvals,
                   batch>>

NextAccum == AccumStep \/ AccumFinish

SpecAccum == InitAccum /\ [][NextAccum]_vars

(***************************************************************************)
(* analyze_xdis.stack_delta, the stack effect of one instruction.          *)
(***************************************************************************)
CALL_OPS == {"CALL", "CALL_FUNCTION", "CALL_FUNCTION_KW", "CALL_FUNCTION_EX", "CALL_METHOD"}

\* the opnames stack_delta has a rule for
RuledOps ==
    CALL_OPS \cup {"BUILD_LIST", "BUILD_TUPLE", "BUILD_SET", "BUILD_MAP", "BUILD_SLICE",
                   "UNPACK_SEQUENCE", "UNPACK_EX", "MAKE_FUNCTION"}

\* those, an opname with a fixed effect and a variadic one without a rule
OpNames == RuledOps \cup {"POP_TOP", "BUILD_STRING"}

\* the arguments: the small ones, which hold every combination of the four
\* flag bits of MAKE_FUNCTION, and some with a second byte for UNPACK_EX
MaxArg == 17
ArgChoices == (0..MaxArg) \cup {256, 257, 513}

\* opc.oppop[op] and opc.oppush[op]: a negative entry says that the count
\* depends on the argument
PopChoices == {-1, 0, 1, 2}
PushChoices == {-1, 0, 1}

\* the table's entry for an opname: whether opmap knows it (it knows
\* the opname of every instruction decoded with the table), its pop and push
OpcEntries == [known : {TRUE}, pop : PopChoices, push : PushChoices]

\* arg & mask for a mask of one bit: 1 when the bit is set in arg
BitSet(arg, bit) == (arg \div bit) % 2

stack_delta(entry, opname, arg) ==
    IF ~entry.known THEN 0
    ELSE IF entry.pop >= 0 /\ entry.push >= 0 THEN entry.push - entry.pop
    ELSE IF opname \in CALL_OPS
    THEN 1 - (arg + (CASE opname = "CALL_FUNCTION_KW" -> 1
                       [] opname = "CALL_FUNCTION_EX" -> 1 + BitSet(arg, 1)
                       [] opname = "CALL" -> 1
                       [] OTHER -> 0))
    ELSE IF opname \in {"BUILD_LIST", "BUILD_TUPLE", "BUILD_SET"} THEN 1 - arg
    ELSE IF opname = "BUILD_MAP" THEN 1 - (arg * 2)
    ELSE IF opname = "BUILD_SLICE" THEN 1 - arg
    ELSE IF opname = "UNPACK_SEQUENCE" THEN arg - 1
    ELSE IF opname = "UNPACK_EX"
    THEN ((arg % 256) + ((arg \div 256) % 256) + 1) - 1
    ELSE IF opname = "MAKE_FUNCTION"
    THEN 1 - (2 + BitSet(arg, 1) + BitSet(arg, 2) + BitSet(arg, 4) + BitSet(arg, 8))
    ELSE 0

\* an instruction of a block and the table's entry for its opname, which
\* opmap knows since the instruction was decoded with that table
InitStack ==
    /\ tool = "stack_delta" /\ pc = "start"
    /\ keep_temp = FALSE /\ args = <<>>
    /\ exit_code = NoExit /\ scratch = FALSE /\ failure = "none"
    /\ instr \in [opname : OpNames, arg : ArgChoices]
    /\ opc \in OpcEntries
    /\ delta = <<>>
    /\ IdleCmp /\ IdleDrv /\ IdleMin /\ IdleAna /\ IdleRatio /\ IdleCfg

\* block_invariants: delta = stack_delta(opc, ins.opname, ins.arg or 0)
StackDelta ==
    /\ tool = "stack_delta" /\ pc = "start"
    /\ delta' = <<stack_delta(opc, instr.opname, instr.arg)>>
    /\ pc' = "exit"
    /\ UNCHANGED <<tool, keep_temp, args, exit_code, scratch, failure, cmpVars, drvVars,
                   minVars, anaVars, opc, instr, seq_a, seq_b, ratio, instrs, cfg>>

NextStack == StackDelta

SpecStack == InitStack /\ [][NextStack]_vars

(***************************************************************************)
(* analyze_xdis.block_invariants, the stack depths of a block.  Here opc   *)
(* is the whole table, an entry for each opname of the block.              *)
(***************************************************************************)
MaxBlock == 3

\* the instructions of a block: one without an argument (arg is None) and
\* two whose effect may depend on the argument
BlockInsts ==
    {[opname |-> "POP_TOP", arg |-> None]}
        \cup [opname : {"UNPACK_SEQUENCE", "BUILD_LIST"}, arg : {0, 3}]

BlockLists == UNION {[1..len -> BlockInsts] : len \in 0..MaxBlock}

\* the tables: each opname with a fixed effect or one left to the rules
OpcTables ==
    [{"POP_TOP", "UNPACK_SEQUENCE", "BUILD_LIST"} ->
        {[known |-> TRUE, pop |-> 1, push |-> 0], [known |-> TRUE, pop |-> -1, push |-> 1]}]

\* ins.arg or 0
arg_or_0(arg) == IF arg = None THEN 0 ELSE arg

\* a plausible slip: the delta compared with the extremes, not the depth
depth_step_Delta(st, d) ==
    [depth |-> st.depth + d,
     max_depth |-> IF d > st.max_depth THEN d ELSE st.max_depth,
     min_depth |-> IF d < st.min_depth THEN d ELSE st.min_depth]

\* the body of the loop: depth += delta, and the two extremes follow
depth_step(st, d) ==
    [depth |-> st.depth + d,
     max_depth |-> IF st.depth + d > st.max_depth THEN st.depth + d ELSE st.max_depth,
     min_depth |-> IF st.depth + d < st.min_depth THEN st.depth + d ELSE st.min_depth]

\* a block and the opcode table are given
InitBlock ==
    /\ tool = "block_invariants" /\ pc = "start"
    /\ keep_temp = FALSE /\ args = <<>>
    /\ exit_code = NoExit /\ scratch = FALSE /\ failure = "none"
    /\ block \in BlockLists
    /\ opc \in OpcTables
    /\ inv = <<>> /\ instr = <<>> /\ delta = <<>> /\ frames = <<>> /\ IdleRet
    /\ code = <<>> /\ out = <<>> /\ paths = <<>>
    /\ IdleCmp /\ IdleDrv /\ IdleMin /\ IdleRatio /\ IdleCfg

\* depth = 0, max_depth = 0, min_depth = 0
BlockEnter ==
    /\ tool = "block_invariants" /\ pc = "start"
    /\ inv' = [depth |-> 0, max_depth |-> 0, min_depth |-> 0]
    /\ instr' = 0
    /\ pc' = "loop"
    /\ UNCHANGED <<tool, keep_temp, args, exit_code, scratch, failure, cmpVars, drvVars,
                   minVars, code, out, paths, block, opc, delta, seq_a, seq_b, ratio,
                   instrs, cfg, frames, retVars>>

\* one pass of "for ins in block['instrs']"; instr counts the passes made
BlockStep ==
    /\ tool = "block_invariants" /\ pc = "loop"
    /\ instr < Len(block)
    /\ \E ins \in {block[instr + 1]} :
          /\ delta' = <<stack_delta(opc[ins.opname], ins.opname, arg_or_0(ins.arg))>>
          /\ inv' = depth_step(inv, delta'[1])
    /\ instr' = instr + 1
    /\ UNCHANGED <<procVars, cmpVars, drvVars, minVars, code, out, paths, block, opc,
                   seq_a, seq_b, ratio, instrs, cfg, frames, retVars>>

\* the loop is over: the dictionary returned
BlockReturn ==
    /\ tool = "block_invariants" /\ pc = "loop"
    /\ instr = Len(block)
    /\ inv' = [stack_delta |-> inv.depth, stack_max |-> inv.max_depth,
               stack_min |-> inv.min_depth]
    /\ pc' = "exit"
    /\ UNCHANGED <<tool, keep_temp, args, exit_code, scratch, failure, cmpVars, drvVars,
                   minVars, code, out, paths, block, opc, instr, delta, seq_a, seq_b, ratio,
                   instrs, cfg, frames, retVars>>

NextBlock == BlockEnter \/ BlockStep \/ BlockReturn

SpecBlock == InitBlock /\ [][NextBlock]_vars

(***************************************************************************)
(* compare.seq_ratio over any two sequences of normalized op tokens.       *)
(***************************************************************************)
MaxOps == 3

OpTokens == {"load", "store", "const:int"}

OpSeqs == SeqsUpTo(OpTokens, MaxOps)

InitRatio ==
    /\ tool = "seq_ratio" /\ pc = "start"
    /\ keep_temp = FALSE /\ args = <<>>
    /\ exit_code = NoExit /\ scratch = FALSE /\ failure = "none"
    /\ seq_a \in OpSeqs /\ seq_b \in OpSeqs /\ ratio = <<>>
    /\ IdleCmp /\ IdleDrv /\ IdleMin /\ IdleAna /\ IdleStack /\ IdleCfg

\* ratio = seq_ratio(unit["norm_ops"], other["norm_ops"])
SeqRatio ==
    /\ tool = "seq_ratio" /\ pc = "start"
    /\ ratio' = <<seq_ratio(seq_a, seq_b)>>
    /\ pc' = "exit"
    /\ UNCHANGED <<tool, keep_temp, args, exit_code, scratch, failure, cmpVars, drvVars,
                   minVars, anaVars, opc, instr, delta, seq_a, seq_b, instrs, cfg>>

NextRatio == SeqRatio

SpecRatio == InitRatio /\ [][NextRatio]_vars

(***************************************************************************)
(* analyze_xdis.analyze_code: normalize_instructions, build_cfg,           *)
(* reachable_blocks and cfg_sig.  An instruction is its offset, its opname *)
(* and, for a jump, the offset it jumps to as argval.                      *)
(***************************************************************************)
MaxCode == 3

IGNORE_OPS == {"CACHE", "EXTENDED_ARG", "NOP", "RESUME", "COPY_FREE_VARS", "PUSH_NULL"}
RETURN_OPS == {"RETURN_VALUE", "RETURN_CONST"}
RAISE_OPS == {"RAISE_VARARGS", "RERAISE"}

\* the opnames of the instructions: a load, a return, a raise, an ignored
\* one, and three jumps
PlainOps == {"LOAD_NAME", "RETURN_VALUE", "RAISE_VARARGS", "NOP"}
JumpOps == {"POP_JUMP_IF_FALSE", "FOR_ITER", "JUMP_ABSOLUTE"}

\* opname.startswith(prefix), for the opnames above
startswith(opname, prefix) ==
    CASE prefix = "JUMP" -> opname = "JUMP_ABSOLUTE"
      [] prefix = "POP_JUMP" -> opname = "POP_JUMP_IF_FALSE"
      [] prefix = "JUMP_IF" -> FALSE

\* "IF" in opname
contains_IF(opname) == opname = "POP_JUMP_IF_FALSE"

is_jump(opname) ==
    \/ startswith(opname, "JUMP")
    \/ startswith(opname, "POP_JUMP")
    \/ startswith(opname, "JUMP_IF")
    \/ opname = "FOR_ITER"

is_cond_jump(opname) ==
    IF opname = "FOR_ITER" THEN TRUE
    ELSE IF startswith(opname, "POP_JUMP") THEN TRUE
    ELSE IF startswith(opname, "JUMP_IF") THEN TRUE
    ELSE IF opname = "JUMP_IF_NOT_EXC_MATCH" THEN TRUE
    ELSE FALSE

is_uncond_jump(opname) ==
    IF startswith(opname, "JUMP") /\ ~contains_IF(opname) THEN TRUE
    ELSE opname \in {"JUMP_ABSOLUTE", "JUMP_FORWARD", "JUMP_BACKWARD",
                     "JUMP_BACKWARD_NO_INTERRUPT"}

\* the offset of the j-th instruction of a code object
OffsetOf(j) == 2 * (j - 1)

\* the instruction lists of a code object: each instruction at its offset,
\* a jump to the offset of one of the instructions, the last instruction
\* one that leaves the code or jumps
CodeLists ==
    UNION {{c \in [1..len -> [opname : PlainOps, argval : {None}]
                              \cup [opname : JumpOps,
                                    argval : {OffsetOf(j) : j \in 1..len}]] :
              \/ c[len].opname \in RETURN_OPS \cup RAISE_OPS
              \/ is_uncond_jump(c[len].opname)} : len \in 1..MaxCode}

\* Bytecode(code, opc): the instructions with their offsets
Decoded(c) ==
    [j \in DOMAIN c |-> [offset |-> OffsetOf(j), opname |-> c[j].opname,
                         argval |-> c[j].argval]]

normalize_instructions(seq) ==
    SelectSeq(seq, LAMBDA x : x.opname \notin IGNORE_OPS /\ x.opname # "PUSH_NULL")

\* a plausible slip: the targets of the jumps not taken as leaders
Leaders_NoTargets(seq) ==
    {seq[1].offset}
       \cup {seq[j + 1].offset : j \in {m \in 1..(Len(seq) - 1) :
                  \/ is_jump(seq[m].opname)
                  \/ seq[m].opname \in RETURN_OPS \cup RAISE_OPS}}

\* build_cfg: the leaders
Leaders(seq) ==
    LET offset_set == {seq[j].offset : j \in DOMAIN seq}
    IN {seq[1].offset}
       \cup {seq[j].argval : j \in {m \in DOMAIN seq :
                  is_jump(seq[m].opname) /\ seq[m].argval \in offset_set}}
       \cup {seq[j + 1].offset : j \in {m \in 1..(Len(seq) - 1) :
                  \/ is_jump(seq[m].opname)
                  \/ seq[m].opname \in RETURN_OPS \cup RAISE_OPS}}

\* sorted(leaders)
RECURSIVE SortedSeq(_)
SortedSeq(S) ==
    IF S = {} THEN <<>>
    ELSE LET least == CHOOSE x \in S : \A y \in S : x <= y
         IN <<least>> \o SortedSeq(S \ {least})

\* build_cfg: the blocks, each with its id, its start and its instructions
Blocks(seq) ==
    LET leaders == SortedSeq(Leaders(seq))
    IN [b \in DOMAIN leaders |->
          [id |-> b - 1,
           start |-> leaders[b],
           instrs |-> SelectSeq(seq, LAMBDA x :
                        /\ x.offset >= leaders[b]
                        /\ b < Len(leaders) => x.offset < leaders[b + 1])]]

\* off_to_block, as the set of the starts, and the lookup
BlockStarts(blocks) == {blocks[b].start : b \in DOMAIN blocks}
off_to_block(blocks, off) ==
    (CHOOSE b \in DOMAIN blocks : blocks[b].start = off) - 1

Last(seq) == seq[Len(seq)]

\* build_cfg: the edges appended for the b-th block
BlockEdges(blocks, b) ==
    LET last == Last(blocks[b].instrs)
        src == blocks[b].id
        has_next == b < Len(blocks)
        to_target(etype) ==
            IF last.argval \in BlockStarts(blocks)
            THEN <<<<src, off_to_block(blocks, last.argval), etype>>>> ELSE <<>>
        to_next == IF has_next THEN <<<<src, blocks[b + 1].id, "fallthrough">>>> ELSE <<>>
    IN IF is_cond_jump(last.opname) THEN to_target("cond") \o to_next
       ELSE IF is_uncond_jump(last.opname) THEN to_target("jump")
       ELSE IF last.opname \in RETURN_OPS \cup RAISE_OPS THEN <<>>
       ELSE to_next

RECURSIVE EdgesFrom(_, _)
EdgesFrom(blocks, b) ==
    IF b > Len(blocks) THEN <<>>
    ELSE BlockEdges(blocks, b) \o EdgesFrom(blocks, b + 1)

build_cfg(seq) ==
    IF seq = <<>> THEN [blocks |-> <<>>, edges |-> <<>>]
    ELSE [blocks |-> Blocks(seq), edges |-> EdgesFrom(Blocks(seq), 1)]

\* reachable_blocks: the ids reached from the first block
RECURSIVE Reach(_, _)
Reach(seen, edges) ==
    LET more == seen \cup {edges[e][2] : e \in {m \in DOMAIN edges : edges[m][1] \in seen}}
    IN IF more = seen THEN seen ELSE Reach(more, edges)

\* a plausible slip: every block taken as reachable
reachable_blocks_All(blocks, edges) == {blocks[b].id : b \in DOMAIN blocks}

reachable_blocks(blocks, edges) ==
    IF blocks = <<>> THEN {} ELSE Reach({blocks[1].id}, edges)

\* the instructions of the unit are given
InitCfg ==
    /\ tool = "analyze_code" /\ pc = "start"
    /\ keep_temp = FALSE /\ args = <<>>
    /\ exit_code = NoExit /\ scratch = FALSE /\ failure = "none"
    /\ \E c \in CodeLists : instrs = Decoded(c)
    /\ cfg = <<>>
    /\ IdleCmp /\ IdleDrv /\ IdleMin /\ IdleAna /\ IdleStack /\ IdleRatio

\* instrs = normalize_instructions(instrs)
CfgNormalize ==
    /\ tool = "analyze_code" /\ pc = "start"
    /\ instrs' = normalize_instructions(instrs)
    /\ pc' = "build_cfg"
    /\ UNCHANGED <<tool, keep_temp, args, exit_code, scratch, failure, cmpVars, drvVars,
                   minVars, anaVars, opc, instr, delta, seq_a, seq_b, ratio, cfg>>

\* blocks, edges, _ = build_cfg(instrs)
CfgBuild ==
    /\ tool = "analyze_code" /\ pc = "build_cfg"
    /\ cfg' = build_cfg(instrs)
    /\ pc' = "retain"
    /\ UNCHANGED <<tool, keep_temp, args, exit_code, scratch, failure, cmpVars, drvVars,
                   minVars, anaVars, opc, instr, delta, seq_a, seq_b, ratio, instrs>>

\* the blocks and edges outside reachable are dropped, and cfg_sig counts
\* what is left
CfgRetain ==
    /\ tool = "analyze_code" /\ pc = "retain"
    /\ \E reachable \in {reachable_blocks(cfg.blocks, cfg.edges)} :
       \E blocks \in {SelectSeq(cfg.blocks, LAMBDA b : b.id \in reachable)} :
       \E edges \in {SelectSeq(cfg.edges,
                               LAMBDA e : e[1] \in reachable /\ e[2] \in reachable)} :
          cfg' = [blocks |-> blocks, edges |-> edges,
                  cfg_sig |-> [block_count |-> Len(blocks), edge_count |-> Len(edges)]]
    /\ pc' = "exit"
    /\ UNCHANGED <<tool, keep_temp, args, exit_code, scratch, failure, cmpVars, drvVars,
                   minVars, anaVars, opc, instr, delta, seq_a, seq_b, ratio, instrs>>

NextCfg == CfgNormalize \/ CfgBuild \/ CfgRetain

SpecCfg == InitCfg /\ [][NextCfg]_vars

(***************************************************************************)
(* locate_mismatch.py and unit_diff.py: the steps of main that decide how  *)
(* the tool ends and what becomes of its scratch directory.                *)
(***************************************************************************)
\* run_dump_view: TimeoutExpired is not caught, a non-zero return code
\* becomes SystemExit(returncode)
run_dump_view(outcome, rc) ==
    IF outcome = "timeout" THEN [raise |-> TRUE, status |-> 1]
    ELSE IF outcome = "nonzero" THEN [raise |-> TRUE, status |-> rc]
    ELSE [raise |-> FALSE, status |-> 0]

\* a SystemExit or an exception in locate_mismatch.py or unit_diff.py after
\* mkdtemp: nothing catches it, the scratch directory stays
RaiseUncaught(why, status) ==
    /\ pc' = "exit"
    /\ exit_code' = <<status>>
    /\ failure' = why
    /\ UNCHANGED scratch

\* the instructions a unit can hold, as inst_dump keeps them: two that
\* differ in arg alone, one more with that opname, one with another opname
InstPool ==
    {[op |-> "LOAD_CONST", argrepr |-> "1", arg |-> 0],
     [op |-> "LOAD_CONST", argrepr |-> "1", arg |-> 1],
     [op |-> "LOAD_CONST", argrepr |-> "2", arg |-> 1],
     [op |-> "RETURN_VALUE", argrepr |-> "", arg |-> 0]}

MaxInsts == 2

InstLists == SeqsUpTo(InstPool, MaxInsts)

\* --context: its default, and smaller radii
DefaultContext == 8
ContextChoices == {0, 1, DefaultContext}

\* a plausible slip: the opname alone compared
InstKey_OpOnly(ins) == <<ins.op>>

\* (oa["op"], oa["argrepr"])
InstKey(ins) == <<ins.op, ins.argrepr>>

\* "for i in range(max_len)": the first index from j on at which the
\* keys differ, None when the loop ends without a break
RECURSIVE first_mismatch(_, _, _)
first_mismatch(orig_list, comp_list, j) ==
    IF j >= Min2(Len(orig_list), Len(comp_list)) THEN None
    ELSE IF InstKey(orig_list[j + 1]) # InstKey(comp_list[j + 1]) THEN j
    ELSE first_mismatch(orig_list, comp_list, j + 1)

\* main's mismatch
mismatch_index(orig_list, comp_list) ==
    LET mismatch == first_mismatch(orig_list, comp_list, 0)
    IN IF mismatch = None /\ Len(orig_list) # Len(comp_list)
       THEN Min2(Len(orig_list), Len(comp_list))
       ELSE mismatch

\* range(a, b)
Range(a, b) == [j \in 1..(b - a) |-> a + j - 1]

\* annotate: nothing (None) outside the list, else the instruction with its
\* index; the block id main adds comes from dump_view's output
annotate(seq, idx) ==
    IF idx < 0 \/ idx >= Len(seq) THEN <<>>
    ELSE <<[inst |-> seq[idx + 1], index |-> idx]>>

\* "mismatch or 0"
MismatchOr0(mismatch) == IF mismatch = None THEN 0 ELSE mismatch

ctx_start(mismatch, ctx) == Max2(0, MismatchOr0(mismatch) - ctx)

ctx_end(orig_list, comp_list, mismatch, ctx) ==
    Max2(ctx_start(mismatch, ctx),
         Min2(Min2(Len(orig_list), Len(comp_list)), MismatchOr0(mismatch) + ctx + 1))

\* "orig_context" / "comp_context"
Context(seq, first, last) ==
    [j \in DOMAIN Range(first, Min2(last, Len(seq))) |->
        annotate(seq, Range(first, Min2(last, Len(seq)))[j])]

\* the payload
Payload(orig_list, comp_list, ctx) ==
    LET mismatch == mismatch_index(orig_list, comp_list)
        first == ctx_start(mismatch, ctx)
        last == ctx_end(orig_list, comp_list, mismatch, ctx)
    IN [mismatch_index |-> mismatch,
        orig |-> IF mismatch # None THEN annotate(orig_list, mismatch) ELSE <<>>,
        comp |-> IF mismatch # None THEN annotate(comp_list, mismatch) ELSE <<>>,
        orig_context |-> Context(orig_list, first, last),
        comp_context |-> Context(comp_list, first, last)]

\* the instruction lists of the unit in the original and in the recompiled
\* source, and the radius, are given
InitLocate ==
    /\ tool = "locate_mismatch" /\ pc = "start"
    /\ keep_temp \in BOOLEAN /\ args \in [context : ContextChoices]
    /\ exit_code = NoExit /\ scratch = FALSE /\ failure = "none"
    /\ orig_data \in InstLists /\ comp_data \in InstLists
    /\ i = 0 /\ comp_seen = <<>> /\ rows = <<>> /\ missing = <<>> /\ acc = <<>>
    /\ report = <<>>
    /\ IdleDrv /\ IdleFn /\ IdleAna /\ IdleMin

\* main up to mkdtemp: the inputs and the path are checked first
LocateStart ==
    /\ tool = "locate_mismatch" /\ pc = "start"
    /\ \/ /\ \E why \in {"missing_input", "no_xdis", "bad_path"} : failure' = why
          /\ pc' = "exit" /\ exit_code' = <<1>>
          /\ UNCHANGED scratch
       \/ /\ scratch' = TRUE
          /\ pc' = "compile"
          /\ UNCHANGED <<exit_code, failure>>
    /\ UNCHANGED <<tool, keep_temp, args, cmpVars, drvVars, fnVars, anaVars, minVars>>

\* compile_source(py, src, compiled_pyc, ...)
LocateCompile ==
    /\ tool = "locate_mismatch" /\ pc = "compile"
    /\ \/ /\ ~lib_compile_source("ok", 0).raise
          /\ pc' = "find"
          /\ UNCHANGED <<exit_code, scratch, failure>>
       \/ \E outcome \in FailOutcomes, rc \in ChildRcs :
             /\ lib_compile_source(outcome, rc).raise
             /\ RaiseUncaught(outcome, lib_compile_source(outcome, rc).status)
    /\ UNCHANGED <<tool, keep_temp, args, cmpVars, drvVars, fnVars, anaVars, minVars>>

\* find_code_by_path(comp_code, orig_path): "missing compiled path"
LocateFind ==
    /\ tool = "locate_mismatch" /\ pc = "find"
    /\ \/ /\ pc' = "dump_view"
          /\ UNCHANGED <<exit_code, scratch, failure>>
       \/ RaiseUncaught("missing_compiled_path", 1)
    /\ UNCHANGED <<tool, keep_temp, args, cmpVars, drvVars, fnVars, anaVars, minVars>>

\* the two calls of run_dump_view
LocateDumpView ==
    /\ tool = "locate_mismatch" /\ pc = "dump_view"
    /\ \/ /\ ~run_dump_view("ok", 0).raise
          /\ pc' = "finish"
          /\ UNCHANGED <<exit_code, scratch, failure>>
       \/ \E outcome \in FailOutcomes, rc \in ChildRcs :
             /\ run_dump_view(outcome, rc).raise
             /\ RaiseUncaught(outcome, run_dump_view(outcome, rc).status)
    /\ UNCHANGED <<tool, keep_temp, args, cmpVars, drvVars, fnVars, anaVars, minVars>>

\* the payload is built, the scratch directory removed unless --keep-temp,
\* the payload written
LocateFinish ==
    /\ tool = "locate_mismatch" /\ pc = "finish"
    /\ report' = Payload(orig_data, comp_data, args.context)
    /\ scratch' = (IF ~keep_temp THEN FALSE ELSE scratch)
    /\ pc' = "exit" /\ exit_code' = <<0>>
    /\ UNCHANGED <<tool, keep_temp, args, failure, orig_data, comp_data, i, comp_seen, rows,
                   missing, acc, drvVars, fnVars, anaVars, minVars>>

NextLocate == LocateStart \/ LocateCompile \/ LocateFind \/ LocateDumpView \/ LocateFinish

SpecLocate == InitLocate /\ [][NextLocate]_vars

(***************************************************************************)
(* locate_mismatch.main's comparison and emit_min.same_unit's, on the same *)
(* two units.  Both tools load the original and the module compiled from   *)
(* the candidate in one process, so a code object among the constants of   *)
(* the original's unit and its counterpart in the candidate's are two live *)
(* objects: their reprs carry different addresses.                         *)
(***************************************************************************)
\* where the two code objects lie, and the lines a def may stand on
LoadAddrs == [orig |-> 1, comp |-> 2]
LineNos == {1, 2}

\* the instructions of a unit loaded at addr: constants, a code object
\* among them, and a return
LoadedInsts(addr) ==
    {Inst("LOAD_CONST", <<TextPiece("1")>>),
     Inst("LOAD_CONST", <<TextPiece("2")>>),
     Inst("RETURN_VALUE", <<>>)}
      \cup {Inst("LOAD_CONST", CodeObjectRepr(addr, l)) : l \in LineNos}

\* locate_mismatch.inst_dump: opname and argrepr as they are
inst_dump(list) ==
    [j \in DOMAIN list |-> [op |-> list[j].opname, argrepr |-> list[j].argrepr, arg |-> 0]]

\* the two units, found under one path in artifacts of one version
InitAgree ==
    /\ tool = "locate_mismatch+same_unit" /\ pc = "start"
    /\ keep_temp = FALSE /\ args = <<>>
    /\ exit_code = NoExit /\ scratch = FALSE /\ failure = "none"
    /\ su \in [orig_instrs : SeqsUpTo(LoadedInsts(LoadAddrs.orig), MaxInsts),
               comp_instrs : SeqsUpTo(LoadedInsts(LoadAddrs.comp), MaxInsts)]
    /\ same = <<>> /\ fvals = <<>> /\ facc = <<>> /\ batch = <<>>
    /\ code = <<>> /\ out = <<>> /\ paths = <<>>
    /\ block = <<>> /\ inv = <<>> /\ frames = <<>>
    /\ IdleCmp /\ IdleDrv /\ IdleFn /\ IdleMin

\* locate_mismatch.main: inst_dump of both lists, then the loop that sets
\* mismatch
AgreeLocate ==
    /\ tool = "locate_mismatch+same_unit" /\ report = <<>>
    /\ report' = <<mismatch_index(inst_dump(su.orig_instrs), inst_dump(su.comp_instrs))>>
    /\ pc' = IF same # <<>> THEN "exit" ELSE pc
    /\ UNCHANGED <<tool, keep_temp, args, exit_code, scratch, failure, orig_data, comp_data,
                   i, comp_seen, rows, missing, acc, drvVars, fnVars, minVars, code, out,
                   paths, block, inv, frames, su, same, fvals, facc, batch>>

\* emit_min.same_unit: the test of the lengths and the loop over the pairs
AgreeSameUnit ==
    /\ tool = "locate_mismatch+same_unit" /\ same = <<>>
    /\ same' = <<same_instrs(su.orig_instrs, su.comp_instrs)>>
    /\ pc' = IF report # <<>> THEN "exit" ELSE pc
    /\ UNCHANGED <<tool, keep_temp, args, exit_code, scratch, failure, cmpVars, drvVars,
                   fnVars, minVars, code, out, paths, block, inv, frames, su, fvals,
                   facc, batch>>

NextAgree == AgreeLocate \/ AgreeSameUnit

SpecAgree == InitAgree /\ [][NextAgree]_vars

(***************************************************************************)
(* compare_dir.py main: the loop over the .pyc files under --orig-dir.     *)
(* A file is known by a number, and sorted() puts the smaller first.       *)
(***************************************************************************)
MaxFiles == 3

\* --limit: 0 for all the files, or a number of files
Limits == {0, 1, 2, -1}

\* what compare.py prints for a file when it ends well; of the summary the
\* first value of each worst list's sort key is kept
ChildReports ==
    {[verdict |-> "exact", rows |-> <<>>,
      summary |-> [min_seq_ratio |-> 1, min_semantic_score |-> 1]],
     [verdict |-> "close", rows |-> <<>>,
      summary |-> [min_seq_ratio |-> 0, min_semantic_score |-> 1]],
     [verdict |-> "mismatch", rows |-> <<>>,
      summary |-> [min_seq_ratio |-> 0, min_semantic_score |-> 0]]}

\* the child's output: nothing that json.loads accepts, or a report
ChildStdouts == {<<>>} \cup {<<r>> : r \in ChildReports}

\* counts before the loop
InitCounts == [exact |-> 0, close |-> 0, mismatch |-> 0, error |-> 0, missing_src |-> 0]

\* report.get("summary", {}) of what run_compare returns
summary_of(timed_out, returncode, stdout) ==
    IF timed_out \/ returncode # 0 \/ stdout = <<>>
    THEN [error |-> run_compare(timed_out, returncode, stdout).error]
    ELSE stdout[1].summary

\* a plausible slip: the limit tested before the file is counted
limit_reached_Late(limit, processed) == limit # 0 /\ processed > limit

\* "args.limit and processed >= args.limit"
limit_reached(limit, processed) == limit # 0 /\ processed >= limit

\* list.sort(key=...): a stable sort, the smaller key first; the keys
\* here are 0 and 1
sort_by(list, field) ==
    SelectSeq(list, LAMBDA x : x[field] = 0) \o SelectSeq(list, LAMBDA x : x[field] # 0)

\* worst_seq[:25]
WorstKept == 25
head(list, cnt) == SubSeq(list, 1, Min2(cnt, Len(list)))

\* the two roots hold any set of files
InitDir ==
    /\ tool = "compare_dir" /\ pc = "start"
    /\ keep_temp = FALSE /\ args \in [limit : Limits]
    /\ exit_code = NoExit /\ scratch = FALSE /\ failure = "none"
    /\ batch \in [found : SUBSET (1..MaxFiles)]
    /\ su = <<>> /\ same = <<>> /\ fvals = <<>> /\ facc = <<>>
    /\ code = <<>> /\ out = <<>> /\ paths = <<>>
    /\ block = <<>> /\ inv = <<>> /\ frames = <<>>
    /\ IdleCmp /\ IdleDrv /\ IdleFn /\ IdleMin

\* main up to the loop: a root or compare.py is missing, or the loop's
\* variables are set and the files sorted
DirStart ==
    /\ tool = "compare_dir" /\ pc = "start"
    /\ \/ /\ failure' = "missing_input"
          /\ pc' = "exit" /\ exit_code' = <<1>>
          /\ UNCHANGED batch
       \/ /\ batch' = [pycs |-> SortedSeq(batch.found), results |-> <<>>,
                       counts |-> InitCounts, worst_seq |-> <<>>,
                       worst_semantic |-> <<>>, processed |-> 0]
          /\ pc' = "loop"
          /\ UNCHANGED <<exit_code, failure>>
    /\ UNCHANGED <<tool, keep_temp, args, scratch, cmpVars, drvVars, fnVars, minVars, code,
                   out, paths, block, inv, frames, su, same, fvals, facc>>

\* one pass of "for pyc in sorted(...)": the source is missing, or
\* run_compare returns; then the limit is tested
DirStep ==
    /\ tool = "compare_dir" /\ pc = "loop"
    /\ batch.processed < Len(batch.pycs)
    /\ \E rel \in {batch.pycs[batch.processed + 1]} :
       \/ batch' = [batch EXCEPT
             !.processed = @ + 1,
             !.counts.missing_src = @ + 1,
             !.results = Append(@, [file |-> rel, verdict |-> "missing_src",
                                    summary |-> <<>>, outcome |-> "missing_src"])]
       \/ \E timed_out \in BOOLEAN, returncode \in {0} \cup ChildRcs,
             stdout \in ChildStdouts :
          \E verdict \in {run_compare(timed_out, returncode, stdout).verdict},
             summary \in {summary_of(timed_out, returncode, stdout)} :
             batch' = [batch EXCEPT
                !.processed = @ + 1,
                !.counts[verdict] = @ + 1,
                !.worst_seq =
                    IF verdict # "error"
                    THEN Append(@, [file |-> rel, min_seq_ratio |-> summary.min_seq_ratio])
                    ELSE @,
                !.worst_semantic =
                    IF verdict # "error"
                    THEN Append(@, [file |-> rel,
                                    min_semantic_score |-> summary.min_semantic_score])
                    ELSE @,
                !.results = Append(@, [file |-> rel, verdict |-> verdict,
                                       summary |-> summary,
                                       \* not in the output: how the child ended
                                       outcome |-> IF timed_out THEN "timeout"
                                                   ELSE IF returncode # 0 THEN "nonzero"
                                                   ELSE IF stdout = <<>> THEN "invalid_json"
                                                   ELSE "report"])]
    /\ pc' = IF limit_reached(args.limit, batch'.processed) THEN "summary" ELSE "loop"
    /\ UNCHANGED <<tool, keep_temp, args, exit_code, scratch, failure, cmpVars, drvVars,
                   fnVars, minVars, code, out, paths, block, inv, frames, su, same, fvals,
                   facc>>

\* after the loop: the worst lists are sorted and cut, the summary is made
\* and printed
DirFinish ==
    /\ tool = "compare_dir"
    /\ pc = "summary" \/ (pc = "loop" /\ batch.processed = Len(batch.pycs))
    /\ batch' = [pycs |-> batch.pycs, processed |-> batch.processed,
                 summary |-> [total |-> Len(batch.results),
                              counts |-> batch.counts,
                              worst_seq |-> head(sort_by(batch.worst_seq, "min_seq_ratio"),
                                                 WorstKept),
                              worst_semantic |->
                                  head(sort_by(batch.worst_semantic, "min_semantic_score"),
                                       WorstKept)],
                 results |-> batch.results]
    /\ pc' = "exit" /\ exit_code' = <<0>>
    /\ UNCHANGED <<tool, keep_temp, args, scratch, failure, cmpVars, drvVars, fnVars,
                   minVars, code, out, paths, block, inv, frames, su, same, fvals, facc>>

NextDir == DirStart \/ DirStep \/ DirFinish

SpecDir == InitDir /\ [][NextDir]_vars

\* the options unit_diff.parse_args declares
UnitDiffOptions ==
    {"--orig", "--src", "--path", "--list", "--no-insts", "--py", "--xdis-python",
     "--timeout", "--out"}

\* the command lines: the options given, the path and the index asked for
\* (-1 for none)
UnitDiffArgs ==
    {[argv |-> {"--orig", "--src", "--list"}, path |-> "", index |-> -1],
     [argv |-> {"--orig", "--src"}, path |-> "", index |-> -1]}
    \cup {[argv |-> {"--orig", "--src", "--path"}, path |-> pth, index |-> -1] :
             pth \in {"<module>.f", "<module>.g"}}
    \cup {[argv |-> {"--orig", "--src", "--path", "--index"}, path |-> pth,
            index |-> ix] : pth \in {"<module>.f"}, ix \in IndexChoices \ {-1}}

\* argparse: an option that was not declared is an error, and the exit
\* status of that error is 2
ArgparseError == 2
parse_args_rejects(argv) == ~(argv \subseteq UnitDiffOptions)

\* unit_diff.collect_paths
unit_diff_collect_paths(obj, path) == collect_paths_walk(obj, path)

\* the matches of unit_diff.find_code_by_path, in the order of its walk.
\* The targets here begin with the module's name, which the name of no
\* nested code object is, so that path.endswith("." + target) is false
unit_diff_matches(obj, target) ==
    SelectSeq(walk(obj, obj.co_name), LAMBDA u : u.path = target)

\* unit_diff.find_code_by_path, which takes no index: the position in
\* matches of the match returned, 0 for None; every match has the target
\* as its whole path, so "exact" is matches
unit_diff_find_code_by_path(matches) ==
    IF matches = <<>> THEN 0
    ELSE IF Len(matches) = 1 THEN 1
    ELSE 0

\* unit_diff.py has no --keep-temp; the original's code object and the
\* command line are given
InitUnitDiff ==
    /\ tool = "unit_diff" /\ pc = "start"
    /\ keep_temp = FALSE /\ args \in UnitDiffArgs
    /\ exit_code = NoExit /\ scratch = FALSE /\ failure = "none"
    /\ code \in ModuleCodes /\ out = <<>> /\ paths = <<>> /\ IdleBlk
    /\ IdleCmp /\ IdleDrv /\ IdleFn /\ IdleMin

\* main up to mkdtemp: parse_args, ensure_xdis, --list returning early,
\* the path checked
UnitDiffStart ==
    /\ tool = "unit_diff" /\ pc = "start"
    /\ \/ /\ parse_args_rejects(args.argv)
          /\ failure' = "unrecognized_arguments"
          /\ pc' = "exit" /\ exit_code' = <<ArgparseError>>
          /\ UNCHANGED <<scratch, paths>>
       \/ /\ ~parse_args_rejects(args.argv)
          /\ failure' = "no_xdis"
          /\ pc' = "exit" /\ exit_code' = <<1>>
          /\ UNCHANGED <<scratch, paths>>
       \/ /\ ~parse_args_rejects(args.argv)
          /\ IF "--list" \in args.argv
             THEN /\ paths' = unit_diff_collect_paths(code, code.co_name)
                  /\ failure' = "list"
                  /\ pc' = "exit" /\ exit_code' = <<0>>
                  /\ UNCHANGED scratch
             ELSE IF args.path = ""
             THEN /\ failure' = "missing_path_arg"
                  /\ pc' = "exit" /\ exit_code' = <<1>>
                  /\ UNCHANGED <<scratch, paths>>
             ELSE IF unit_diff_find_code_by_path(unit_diff_matches(code, args.path)) = 0
             THEN /\ failure' = "bad_path"
                  /\ pc' = "exit" /\ exit_code' = <<1>>
                  /\ UNCHANGED <<scratch, paths>>
             ELSE /\ scratch' = TRUE
                  /\ pc' = "compile"
                  /\ UNCHANGED <<exit_code, failure, paths>>
    /\ UNCHANGED <<tool, keep_temp, args, cmpVars, drvVars, fnVars, minVars, code, out,
                   blkVars>>

\* compile_source(py, Path(args.src), compiled_pyc, args.timeout)
UnitDiffCompile ==
    /\ tool = "unit_diff" /\ pc = "compile"
    /\ \/ /\ ~lib_compile_source("ok", 0).raise
          /\ pc' = "find"
          /\ UNCHANGED <<exit_code, scratch, failure>>
       \/ \E outcome \in FailOutcomes, rc \in ChildRcs :
             /\ lib_compile_source(outcome, rc).raise
             /\ RaiseUncaught(outcome, lib_compile_source(outcome, rc).status)
    /\ UNCHANGED <<tool, keep_temp, args, cmpVars, drvVars, fnVars, anaVars, minVars>>

\* find_code_by_path(comp_code, orig_path): "missing compiled path"
UnitDiffFind ==
    /\ tool = "unit_diff" /\ pc = "find"
    /\ \/ /\ pc' = "finish"
          /\ UNCHANGED <<exit_code, scratch, failure>>
       \/ RaiseUncaught("missing_compiled_path", 1)
    /\ UNCHANGED <<tool, keep_temp, args, cmpVars, drvVars, fnVars, anaVars, minVars>>

\* the report is built and written; main ends, and nothing has removed the
\* scratch directory
UnitDiffFinish ==
    /\ tool = "unit_diff" /\ pc = "finish"
    /\ \E matches \in {unit_diff_matches(code, args.path)} :
          report' = <<[path |-> matches[unit_diff_find_code_by_path(matches)].path,
                       orig_unit |-> matches[unit_diff_find_code_by_path(matches)]]>>
    /\ pc' = "exit" /\ exit_code' = <<0>>
    /\ UNCHANGED <<tool, keep_temp, args, scratch, failure, orig_data, comp_data, i,
                   comp_seen, rows, missing, acc, drvVars, fnVars, anaVars, minVars>>

NextUnitDiff == UnitDiffStart \/ UnitDiffCompile \/ UnitDiffFind \/ UnitDiffFinish

SpecUnitDiff == InitUnitDiff /\ [][NextUnitDiff]_vars

\* any one of the tools, run once
InitTools == InitCompare \/ InitMin \/ InitLocate \/ InitUnitDiff
NextTools == NextCompare \/ NextMin \/ NextLocate \/ NextUnitDiff
SpecTools == InitTools /\ [][NextTools]_vars

(***************************************************************************)
(* Properties of compare.py and run_compare.                               *)
(***************************************************************************)
\* the walk has both unit lists and the versions agree
Comparing ==
    /\ tool = "compare" /\ orig_data # <<>> /\ comp_data # <<>>
    /\ orig_data.version = comp_data.version

\* a report was printed after the loop
Reported == Comparing /\ report # <<>>

\* the number of units with the path of units[j] among units[1..j]
Occurrence(units, j) ==
    Cardinality({m \in 1..j : UnitOf(units[m]).path = UnitOf(units[j]).path})

\* the position of the kth unit with path P in units, 0 when there is none
KthWithPath(units, P, kth) ==
    LET S == {j \in DOMAIN units :
                UnitOf(units[j]).path = P /\ Occurrence(units, j) = kth}
    IN IF S = {} THEN 0 ELSE CHOOSE j \in S : TRUE

\* the counterpart, by occurrence, of the j-th unit of the original
Counterpart(j) ==
    KthWithPath(comp_data.units, UnitOf(orig_data.units[j]).path,
                Occurrence(orig_data.units, j))

RowsOf(j) == {r \in DOMAIN rows : rows[r].oi = j}

\* C1: with equal versions the k-th unit with path P of the original is
\* compared with the k-th unit with path P of the candidate and with no
\* other; when the candidate has fewer than k such units the original unit
\* gives no row, its path goes to units_missing, and the verdict is mismatch.
C1_PairedByOccurrence ==
    Comparing =>
      /\ \A j \in 1..i :
            IF Counterpart(j) # 0
            THEN /\ Cardinality(RowsOf(j)) = 1
                 /\ \A r \in RowsOf(j) :
                       /\ rows[r].ci = Counterpart(j)
                       /\ rows[r].path = UnitOf(orig_data.units[j]).path
                       /\ rows[r].len_comp =
                            Len(UnitOf(comp_data.units[Counterpart(j)]).norm_ops)
                       /\ rows[r].exact =
                            (UnitOf(orig_data.units[j]).norm_ops
                               = UnitOf(comp_data.units[Counterpart(j)]).norm_ops)
            ELSE RowsOf(j) = {}
      /\ missing = SelectSeq([j \in 1..i |-> IF Counterpart(j) = 0
                                               THEN UnitOf(orig_data.units[j]).path
                                               ELSE ""],
                             LAMBDA x : x # "")
      /\ Len(rows) + Len(missing) = i
      /\ (report # <<>> /\ missing # <<>>) =>
            /\ report[1].verdict = "mismatch"
            /\ report[1].summary.units_missing = missing

\* a report whose second row pairs the second unit of a path with the
\* candidate's second unit of that path, the two candidates being different
C1_Witness ==
    /\ Reported
    /\ \E r \in DOMAIN rows :
          /\ Occurrence(orig_data.units, rows[r].oi) = 2
          /\ rows[r].ci = 2
          /\ comp_data.units[1] # comp_data.units[2]

RECURSIVE QSum(_, _)
QSum(seq, field) ==
    IF seq = <<>> THEN QZero
    ELSE QAdd(QSum(SubSeq(seq, 1, Len(seq) - 1), field), seq[Len(seq)][field])

\* the smallest seq_ratio of the rows
RowsMinRatio(seq) ==
    CHOOSE q \in {seq[r].seq_ratio : r \in DOMAIN seq} :
        \A r \in DOMAIN seq : ~QLt(seq[r].seq_ratio, q)

\* the verdict as the rule gives it from the rows, the missing units and
\* the thresholds
RuleVerdict(rws, miss, a) ==
    LET cnt == Len(rws)
        Avg(field) == QDivInt(QSum(rws, field), cnt)
    IN IF cnt = 0 \/ miss # <<>> THEN "mismatch"
       ELSE IF \A r \in DOMAIN rws : rws[r].exact THEN "exact"
       ELSE IF /\ QGe(Avg("seq_ratio"), a.avg_ratio)
               /\ QGe(RowsMinRatio(rws), a.min_unit_ratio)
               /\ QGe(Avg("count_jaccard"), a.min_count_jaccard)
               /\ QGe(Avg("block_jaccard"), a.min_block_jaccard)
               /\ QGe(Avg("edge_jaccard"), a.min_edge_jaccard)
               /\ QGe(Avg("semantic_score"), a.min_semantic_score)
            THEN "close"
            ELSE "mismatch"

\* C2: with equal versions the verdict is mismatch when no unit was compared
\* or a unit has no counterpart, else exact when every compared unit is
\* exact, else close when the six thresholds hold, else mismatch; nothing
\* else (meta_mismatch, the tiers) enters.
C2_VerdictOrder ==
    Reported =>
      /\ report[1].verdict = RuleVerdict(report[1].rows, report[1].summary.units_missing, args)
      /\ report[1].summary.verdict = report[1].verdict

\* a close verdict over a row of tier mismatch with a meta mismatch
C2_Witness ==
    /\ Reported
    /\ report[1].verdict = "close"
    /\ \E r \in DOMAIN report[1].rows :
          /\ report[1].rows[r].tier = "mismatch"
          /\ report[1].rows[r].meta_mismatch # <<>>

\* both unit lists are there and the versions differ
VersionsSeenDiffer ==
    /\ tool = "compare" /\ orig_data # <<>> /\ comp_data # <<>>
    /\ orig_data.version # comp_data.version

\* C3: when the version of the original differs from the version of the
\* recompiled candidate, the report has verdict mismatch, version_mismatch
\* true, units_compared 0, units_missing and rows empty, and no unit is
\* paired or scored.
C3_VersionGate ==
    VersionsSeenDiffer =>
      /\ pc \in {"gate", "exit", "killed"}
      /\ i = 0 /\ rows = <<>> /\ missing = <<>> /\ acc = <<>> /\ comp_seen = <<>>
      /\ pc = "exit" =>
            /\ report # <<>>
            /\ report[1].verdict = "mismatch"
            /\ report[1].summary.verdict = "mismatch"
            /\ report[1].summary.version_mismatch = TRUE
            /\ report[1].summary.units_compared = 0
            /\ report[1].summary.units_missing = <<>>
            /\ report[1].rows = <<>>

\* the stub report for two artifacts that hold the same units, all of which
\* would have been paired
C3_Witness ==
    /\ VersionsSeenDiffer
    /\ report # <<>>
    /\ orig_data.units # <<>>
    /\ orig_data.units = comp_data.units

\* the tier by the rule, from the fields of a row
RuleTier(row, a) ==
    IF row.exact THEN "exact"
    ELSE IF /\ row.meta_mismatch = <<>>
            /\ QGe(row.block_jaccard, a.min_block_jaccard)
            /\ QGe(row.edge_jaccard, a.min_edge_jaccard)
         THEN "semantic_equiv"
         ELSE "mismatch"

\* C4: a row's tier is exact when the two op sequences are equal, else
\* semantic_equiv when meta_mismatch is empty and block_jaccard and
\* edge_jaccard reach their thresholds, else mismatch; a unit that is not
\* exact and differs in a meta key has tier mismatch.
C4_RowTier ==
    Comparing =>
      \A r \in DOMAIN rows :
         LET o == UnitOf(orig_data.units[rows[r].oi])
             c == UnitOf(comp_data.units[rows[r].ci])
         IN /\ rows[r].exact = (o.norm_ops = c.norm_ops)
            /\ (rows[r].meta_mismatch # <<>>) = (o.meta # c.meta)
            /\ rows[r].tier = RuleTier(rows[r], args)
            /\ (o.meta # c.meta /\ o.norm_ops # c.norm_ops) => rows[r].tier = "mismatch"

\* a row that is not exact, reaches both thresholds and differs in flags
C4_Witness ==
    /\ Reported
    /\ \E r \in DOMAIN rows :
          /\ ~rows[r].exact
          /\ rows[r].meta_mismatch = <<"flags">>
          /\ QGe(rows[r].block_jaccard, args.min_block_jaccard)
          /\ QGe(rows[r].edge_jaccard, args.min_edge_jaccard)
          /\ rows[r].tier = "mismatch"

\* the candidate's analysis is the original's, with at least one unit
SelfCompared ==
    /\ Reported
    /\ comp_data = orig_data
    /\ orig_data.units # <<>>

\* C5: comparing a unit list with itself gives verdict exact, no missing
\* unit, every row exact with tier exact, and every metric, average and
\* minimum equal to 1, also with duplicate paths and with empty block or
\* edge multisets.
C5_Reflexive ==
    SelfCompared =>
      /\ report[1].verdict = "exact"
      /\ report[1].summary.units_missing = <<>>
      /\ report[1].summary.units_compared = Len(orig_data.units)
      /\ report[1].summary.exact_units = Len(orig_data.units)
      /\ Len(report[1].rows) = Len(orig_data.units)
      /\ \A r \in DOMAIN report[1].rows :
            /\ report[1].rows[r].exact
            /\ report[1].rows[r].tier = "exact"
            /\ \A f \in {"seq_ratio", "count_jaccard", "block_jaccard",
                         "edge_jaccard", "semantic_score"} :
                   report[1].rows[r][f] = QOne
      /\ \A f \in {"avg_seq_ratio", "avg_count_jaccard", "avg_block_jaccard",
                   "avg_edge_jaccard", "avg_semantic_score",
                   "min_seq_ratio", "min_count_jaccard", "min_block_jaccard",
                   "min_edge_jaccard", "min_semantic_score"} :
             report[1].summary[f] = QOne

\* a self comparison with a unit whose edge multiset is empty
C5_Witness ==
    /\ SelfCompared
    /\ \E j \in DOMAIN orig_data.units :
          UnitOf(orig_data.units[j]).edge_sig_counts = NoDict

\* compare.py has ended by itself (it was not killed)
CompareEnded == tool = "compare" /\ pc = "exit"

\* C6 as stated: the exit status is 0 exactly when the verdict is exact or
\* close.
C6_ZeroIffExactOrClose ==
    CompareEnded =>
      (exit_code = <<0>>) =
         (report # <<>> /\ report[1].verdict \in {"exact", "close"})

\* C6: the exit status of compare.py is 0 exactly when it printed a report,
\* whatever the verdict (exact, close or mismatch, missing units and the
\* version mismatch included); a missing input, a missing xdis, a failed or
\* timed out external step give a non-zero status and no report.
C6_ZeroIffReport ==
    CompareEnded =>
      /\ (exit_code = <<0>>) = (report # <<>>)
      /\ (exit_code = <<0>>) = (failure = "none")
      /\ exit_code # NoExit

\* a mismatch report with a missing unit, and exit status 0
C6_Witness ==
    /\ CompareEnded
    /\ exit_code = <<0>>
    /\ report # <<>>
    /\ report[1].verdict = "mismatch"
    /\ report[1].summary.units_missing # <<>>

\* run_compare has returned after an external step of the comparison
\* failed or the comparison ran out of time
StepFailedResult ==
    /\ tool = "compare" /\ driver /\ result # <<>>
    /\ failure \in FailOutcomes \/ pc = "killed"

C8_ScratchRemoved ==
    (pc = "exit" /\ ~keep_temp) => ~scratch

\* C9 as stated: whenever the minimizer writes an output, same_unit holds
\* of the written output, also when no removal succeeded and when nothing
\* was removable.
C9_WrittenIsSameUnit ==
    (tool = "emit_min" /\ written # <<>>) =>
       /\ SeqSet(written[1]) \in DOMAIN answers
       /\ answers[SeqSet(written[1])]

\* ddmin has returned, and not because of the cap
StoppedUncapped == tool = "emit_min" /\ pc = "exit" /\ stop \in {"break", "empty"}

\* C10: when ddmin stops without reaching the max_iter cap, no single
\* remaining removable statement can be removed from the final kept set
\* with same_unit holding: the last pass tested every remaining removable
\* statement as a singleton and every test failed, or none remains.
C10_OneMinimal ==
    StoppedUncapped =>
      /\ SeqSet(written[1]) = keep_idx \cup SeqSet(removable)
      /\ \A r \in SeqSet(removable) :
            /\ (SeqSet(written[1]) \ {r}) \in DOMAIN answers
            /\ ~answers[SeqSet(written[1]) \ {r}]
      /\ stop = "break" =>
            /\ removable # <<>>
            /\ subsets = [c \in DOMAIN removable |-> <<removable[c]>>]
            /\ k = Len(subsets)
      /\ stop = "empty" => removable = <<>>

\* ddmin stopped at the finest partition with two statements it could not
\* remove, after it had removed others
C10_Witness ==
    /\ StoppedUncapped
    /\ stop = "break"
    /\ Len(removable) >= 2
    /\ Len(written[1]) < Len(body)

\* main has computed keep_idx and removable
MinStarted ==
    /\ tool = "emit_min"
    /\ pc \in {"ddmin", "test", "same_unit"} \/ written # <<>>

\* the statement of the candidate whose code object the path and --index
\* select, when they select one
SelectedStatement ==
    LET matches == PathMatches(body, 0..(Len(body) - 1), target_path)
        pos == find_code_by_path(matches, args.index)
    IN IF target_path = "<module>" \/ pos = 0 THEN {} ELSE {matches[pos]}

\* the statements C11 names: the docstring, the __future__ imports and the
\* statement of the selected target
NamedKept ==
    (IF module_docstring_index(body) >= 0 THEN {module_docstring_index(body)} ELSE {})
    \cup {j - 1 : j \in {m \in DOMAIN body : is_future_import(body[m])}}
    \cup SelectedStatement

\* C11 as stated: for any target path and any --index, the module
\* docstring, every __future__ import and the top-level statement of the
\* selected target code object are never in the removable set, and are in
\* the output.
C11_SelectedNeverRemovable ==
    MinStarted =>
       /\ NamedKept \cap SeqSet(removable) = {}
       /\ written # <<>> => NamedKept \subseteq SeqSet(written[1])

\* the output lacks the statement of the selected target
C11_SelectedDropped ==
    /\ MinStarted /\ written # <<>>
    /\ ~(SelectedStatement \subseteq SeqSet(written[1]))

\* what the code keeps: the docstring, the __future__ imports and the
\* first def with the target's name are never removable and are written
C11_FirstDefKept ==
    MinStarted =>
       /\ keep_idx = KeepIdx(body, target_path)
       /\ keep_idx \cap SeqSet(removable) = {}
       /\ written # <<>> => keep_idx \subseteq SeqSet(written[1])

\* the minimizer has written its output under the default cap, and
\* same_unit held of the candidate and of every candidate tested
WrittenAllHolding ==
    /\ tool = "emit_min" /\ pc = "exit" /\ written # <<>>
    /\ max_iter = DefaultMaxIter
    /\ \A s \in DOMAIN answers : answers[s]

\* C12: if same_unit holds for every candidate that keeps the always-kept
\* statements, the minimizer removes every removable statement: the output
\* is exactly the always-kept statements in their original order, and
\* ddmin returns with removable empty before the default iteration cap.
C12_AllRemoved ==
    WrittenAllHolding =>
       /\ written[1] = build_module(body, KeepIdx(body, target_path))
       /\ removable = <<>>
       /\ stop \in {"nothing", "empty"}
       /\ iters < DefaultMaxIter

\* ddmin needed three passes or more to remove every removable statement,
\* and the kept statements are the output
C12_Witness ==
    /\ WrittenAllHolding
    /\ stop = "empty" /\ iters >= 3
    /\ Len(body) - Len(written[1]) >= 2
    /\ Len(written[1]) >= 1

\* the localizer has written its report
Located == tool = "locate_mismatch" /\ pc = "exit" /\ report # <<>>

\* the indices below both lengths at which opname or argrepr differ
DifferAt ==
    {j \in 0..(Min2(Len(orig_data), Len(comp_data)) - 1) :
        \/ orig_data[j + 1].op # comp_data[j + 1].op
        \/ orig_data[j + 1].argrepr # comp_data[j + 1].argrepr}

\* C13: the reported mismatch_index is the smallest index at which
\* (opname, argrepr) differ; with no such index below both lengths and the
\* lengths different it is the smaller length; it is null exactly when the
\* two lists agree in length and in every (opname, argrepr); in every
\* non-null case the lists agree below it, and differ at it when it is
\* below both lengths.
C13_FirstDifference ==
    Located =>
      LET m == report.mismatch_index
          short == Min2(Len(orig_data), Len(comp_data))
      IN /\ DifferAt # {} => m \in DifferAt /\ \A j \in DifferAt : m <= j
         /\ (DifferAt = {} /\ Len(orig_data) # Len(comp_data)) => m = short
         /\ m = None <=> (DifferAt = {} /\ Len(orig_data) = Len(comp_data))
         /\ m # None =>
               /\ m \in 0..short
               /\ \A j \in 0..(m - 1) : j \notin DifferAt
               /\ m < short => m \in DifferAt

\* the lists agree in their first instruction and differ in the argrepr of
\* the second, the opname being the same
C13_Witness ==
    /\ Located
    /\ report.mismatch_index = 1
    /\ Len(orig_data) >= 2 /\ Len(comp_data) >= 2
    /\ orig_data[2].op = comp_data[2].op
    /\ orig_data[1].arg # comp_data[1].arg

\* the indices of the instructions of a context window, in its order
WindowIndices(context) == [j \in DOMAIN context |-> context[j][1].index]

\* the window C14 describes for a side: the indices from max(0, m - R) up
\* to, and without, min(len_side, m + R + 1)
SideWindow(seq, m, radius) == Range(Max2(0, m - radius), Min2(Len(seq), m + radius + 1))

\* C14 as stated: for each side of a report with mismatch index m and
\* radius R the context window is exactly the instructions at the indices
\* from max(0, m - R) to min(len_side, m + R + 1), len_side being that
\* side's own instruction count; it has at most 2R+1 entries and holds
\* index m whenever m < len_side.
C14_WindowPerSide ==
    (Located /\ report.mismatch_index # None) =>
      LET m == report.mismatch_index
          radius == args.context
      IN /\ WindowIndices(report.orig_context) = SideWindow(orig_data, m, radius)
         /\ WindowIndices(report.comp_context) = SideWindow(comp_data, m, radius)
         /\ Len(report.orig_context) <= 2 * radius + 1
         /\ Len(report.comp_context) <= 2 * radius + 1
         /\ m < Len(orig_data) => m \in SeqSet(WindowIndices(report.orig_context))
         /\ m < Len(comp_data) => m \in SeqSet(WindowIndices(report.comp_context))

\* what the code does: both windows end at the shorter list's length
C14_WindowBothSides ==
    (Located /\ report.mismatch_index # None) =>
      LET m == report.mismatch_index
          radius == args.context
          short == Min2(Len(orig_data), Len(comp_data))
          window == Range(Max2(0, m - radius), Min2(short, m + radius + 1))
      IN /\ WindowIndices(report.orig_context) = window
         /\ WindowIndices(report.comp_context) = window
         /\ Len(window) <= 2 * radius + 1

\* the units of the original walked so far that have a counterpart, by
\* their position, in the original's order
Paired == SelectSeq([j \in 1..i |-> j], LAMBDA j : Counterpart(j) # 0)

\* the rows are those of the paired units, in the original's order
RowsInOrder ==
    Comparing =>
      \E paired \in {Paired} :
         /\ Len(rows) = Len(paired)
         /\ \A r \in DOMAIN rows :
               /\ rows[r].oi = paired[r]
               /\ rows[r].path = UnitOf(orig_data.units[paired[r]]).path
         /\ report # <<>> => report[1].rows = rows

\* C15: within one comparison the sequence of row paths is the sequence of
\* the original's unit paths, in the original's order, without exactly the
\* units that have no counterpart; every step leaves the rows written so
\* far in place and at most appends one, whatever the candidates' order.
C15_RowsFollowOriginal ==
    [][/\ RowsInOrder'
       /\ Len(rows) <= Len(rows')
       /\ SubSeq(rows', 1, Len(rows)) = rows]_vars

\* a report of two rows, of different paths, whose candidates stand in the
\* opposite order in the compiled module
C15_Witness ==
    /\ Reported
    /\ Len(rows) = 2
    /\ rows[1].path # rows[2].path
    /\ rows[1].ci = 2 /\ rows[2].ci = 1

\* the analyzer has printed its units and collect_paths has returned
Walked == tool = "analyze_xdis" /\ pc = "exit"

\* the occurrences of code objects under obj, each known by the positions
\* in co_consts that lead to it from obj
RECURSIVE Occurrences(_)
Occurrences(obj) ==
    {<<>>} \cup UNION {{<<j>> \o q : q \in Occurrences(obj.co_consts[j])} :
                        j \in {m \in DOMAIN obj.co_consts :
                                  hasattr_co_code(obj.co_consts[m])}}

RECURSIVE CodeAt(_, _)
CodeAt(obj, pos) ==
    IF pos = <<>> THEN obj ELSE CodeAt(obj.co_consts[pos[1]], Tail(pos))

\* the names from obj down to the occurrence, joined by dots
RECURSIVE PathAt(_, _)
PathAt(obj, pos) ==
    IF pos = <<>> THEN obj.co_name
    ELSE obj.co_name \o "." \o PathAt(obj.co_consts[pos[1]], Tail(pos))

\* depth-first pre-order: a parent before what lies under it, and the
\* constants of one code object in their order
Before(p, q) ==
    /\ p # q
    /\ \/ Len(p) < Len(q) /\ SubSeq(q, 1, Len(p)) = p
       \/ \E j \in 1..Min2(Len(p), Len(q)) :
             /\ SubSeq(p, 1, j - 1) = SubSeq(q, 1, j - 1)
             /\ p[j] < q[j]

Rank(occ, pos) == 1 + Cardinality({q \in occ : Before(q, pos)})

\* C16: the analyzer emits exactly one unit per occurrence of a code
\* object, in depth-first pre-order, the path of each being the names from
\* the root down joined by dots; units of equal paths are all emitted, in
\* that order; lib.collect_paths returns the same sequence of paths.
C16_PreorderPaths ==
    Walked =>
      \E occ \in {Occurrences(code)} :
         /\ Len(out) = Cardinality(occ)
         /\ \A pos \in occ :
               /\ out[Rank(occ, pos)].path = PathAt(code, pos)
               /\ out[Rank(occ, pos)].of = CodeAt(code, pos)
         /\ paths = [r \in DOMAIN out |-> out[r].path]

\* two functions of the same name in one module, the first with a nested
\* function: after the module's unit come three units, the nested one
\* between the two of equal path
C16_Witness ==
    /\ Walked
    /\ Len(out) = 4
    /\ out[2].path = out[4].path
    /\ out[2].of # out[4].of
    /\ out[3].path = out[2].path \o "." \o out[3].of.co_name

\* the failures of a unit_diff run that come from outside it: no xdis, the
\* recompilation, the path missing from the recompiled module
OutsideFailures == {"no_xdis", "timeout", "nonzero", "missing_compiled_path"}

\* unit_diff has ended, having been asked, with --index, for an occurrence
\* of a path that the original holds more than once, and nothing outside
\* it failed
IndexedRunEnded ==
    /\ tool = "unit_diff" /\ pc = "exit"
    /\ "--index" \in args.argv
    /\ Len(unit_diff_matches(code, args.path)) >= 2
    /\ args.index < Len(unit_diff_matches(code, args.path))
    /\ failure \notin OutsideFailures

\* C17 as stated: when a path occurs more than once in the original,
\* unit_diff with that path and --index k, 0 <= k < the number of
\* occurrences, succeeds and reports the k-th occurrence under the path
\* asked for; it fails neither as ambiguous nor as an unknown option.
C17_IndexSelects ==
    IndexedRunEnded =>
       /\ failure = "none"
       /\ exit_code = <<0>>
       /\ report # <<>>
       /\ report[1].path = args.path
       /\ report[1].orig_unit = unit_diff_matches(code, args.path)[args.index + 1]

\* what the code does with a path the original holds more than once: with
\* --index the command line is rejected, without it the path is ambiguous
C17_DuplicatePathFails ==
    (/\ tool = "unit_diff" /\ pc = "exit"
     /\ "--path" \in args.argv
     /\ Len(unit_diff_matches(code, args.path)) >= 2) =>
       /\ report = <<>>
       /\ failure \in {"unrecognized_arguments", "bad_path", "no_xdis"}
       /\ "--index" \in args.argv =>
             failure = "unrecognized_arguments" /\ exit_code = <<ArgparseError>>

\* the delta of the instruction was computed
DeltaComputed == tool = "stack_delta" /\ pc = "exit"

\* the number of the four low bits set in arg
Popcount4(arg) == BitSet(arg, 1) + BitSet(arg, 2) + BitSet(arg, 4) + BitSet(arg, 8)

\* the closed-form rules as C18 lists them
ClosedForm(opname, arg) ==
    CASE opname \in {"CALL_FUNCTION", "CALL_METHOD"} -> 1 - (arg + 1)
      [] opname = "CALL_FUNCTION_KW" -> 1 - (arg + 2)
      [] opname = "CALL_FUNCTION_EX" -> 1 - (arg + 2 + (arg % 2))
      [] opname = "CALL" -> 1 - (arg + 2)
      [] opname \in {"BUILD_LIST", "BUILD_TUPLE", "BUILD_SET", "BUILD_SLICE"} -> 1 - arg
      [] opname = "BUILD_MAP" -> 1 - 2 * arg
      [] opname = "UNPACK_SEQUENCE" -> arg - 1
      [] opname = "UNPACK_EX" -> (arg % 256) + ((arg \div 256) % 256)
      [] opname = "MAKE_FUNCTION" -> 1 - (2 + Popcount4(arg % 16))

\* C18 as stated: for every variadic opcode and every arg the delta used by
\* the block signatures equals the closed-form rule (the calls 1-(arg+1),
\* 1-(arg+2), 1-(arg+2+(arg&1)), 1-(arg+2); the builds 1-arg and 1-2*arg;
\* the unpacks arg-1 and before+after; MAKE_FUNCTION 1-(2+popcount)),
\* whatever pop and push the opcode table holds.
C18_ClosedForm ==
    (DeltaComputed /\ instr.opname \in RuledOps) =>
        delta[1] = ClosedForm(instr.opname, instr.arg)

\* what the code computes: the table's push - pop when neither is negative;
\* otherwise the rule, which for the five call opcodes is one more than the
\* closed form of C18
C18_TableFirstCallsOneMore ==
    (DeltaComputed /\ instr.opname \in RuledOps) =>
        IF opc.pop >= 0 /\ opc.push >= 0
        THEN delta[1] = opc.push - opc.pop
        ELSE delta[1] = ClosedForm(instr.opname, instr.arg)
                          + (IF instr.opname \in CALL_OPS THEN 1 ELSE 0)

\* seq_ratio has returned
Rated == tool = "seq_ratio" /\ pc = "exit"

InUnitInterval(x) == QGe(x, QZero) /\ QGe(QOne, x)

CfgDone == tool = "analyze_code" /\ pc = "exit"

\* the retained edges that leave a block, by their type
OutEdges(id, etype) ==
    {e \in DOMAIN cfg.edges : cfg.edges[e][1] = id /\ cfg.edges[e][3] = etype}

AllOutEdges(id) == {e \in DOMAIN cfg.edges : cfg.edges[e][1] = id}

\* C20 as stated: the outgoing edges of every retained block follow from
\* its last instruction: a conditional branch (FOR_ITER too) has exactly
\* two, one cond and one fallthrough; an unconditional jump exactly one
\* jump edge; a return or raise none; any other terminator exactly one
\* fallthrough edge; cfg_sig.edge_count is the number of retained edges;
\* also when the branch target was removed by normalization.
C20_EdgesByTerminator ==
    CfgDone =>
       /\ cfg.cfg_sig.edge_count = Len(cfg.edges)
       /\ \A b \in DOMAIN cfg.blocks :
             LET last == Last(cfg.blocks[b].instrs)
                 id == cfg.blocks[b].id
             IN IF last.opname \in {"POP_JUMP_IF_FALSE", "FOR_ITER"}
                THEN /\ Cardinality(AllOutEdges(id)) = 2
                     /\ Cardinality(OutEdges(id, "cond")) = 1
                     /\ Cardinality(OutEdges(id, "fallthrough")) = 1
                ELSE IF last.opname = "JUMP_ABSOLUTE"
                THEN /\ Cardinality(AllOutEdges(id)) = 1
                     /\ Cardinality(OutEdges(id, "jump")) = 1
                ELSE IF last.opname \in {"RETURN_VALUE", "RAISE_VARARGS"}
                THEN AllOutEdges(id) = {}
                ELSE /\ Cardinality(AllOutEdges(id)) = 1
                     /\ Cardinality(OutEdges(id, "fallthrough")) = 1

\* what the code does: the cond or jump edge is there exactly when the
\* target is an instruction that normalization kept, the fallthrough edge
\* exactly when a block follows
C20_EdgeIffTargetKept ==
    CfgDone =>
       /\ cfg.cfg_sig.edge_count = Len(cfg.edges)
       /\ \A b \in DOMAIN cfg.blocks :
             LET last == Last(cfg.blocks[b].instrs)
                 id == cfg.blocks[b].id
                 kept == last.argval \in {instrs[j].offset : j \in DOMAIN instrs}
             IN IF last.opname \in {"POP_JUMP_IF_FALSE", "FOR_ITER"}
                THEN /\ Cardinality(OutEdges(id, "cond")) = (IF kept THEN 1 ELSE 0)
                     /\ Cardinality(OutEdges(id, "fallthrough")) = 1
                     /\ OutEdges(id, "jump") = {}
                ELSE IF last.opname = "JUMP_ABSOLUTE"
                THEN /\ Cardinality(OutEdges(id, "jump")) = (IF kept THEN 1 ELSE 0)
                     /\ AllOutEdges(id) = OutEdges(id, "jump")
                ELSE IF last.opname \in {"RETURN_VALUE", "RAISE_VARARGS"}
                THEN AllOutEdges(id) = {}
                ELSE /\ Cardinality(AllOutEdges(id)) = 1
                     /\ Cardinality(OutEdges(id, "fallthrough")) = 1

\* the ids of the blocks listed in block_sigs
SigIds == {cfg.blocks[b].id : b \in DOMAIN cfg.blocks}

\* a set of block ids that holds block 0 and every block a retained edge
\* leads to from one of its blocks
ClosedFromEntry(S) ==
    /\ 0 \in S
    /\ \A e \in DOMAIN cfg.edges : cfg.edges[e][1] \in S => cfg.edges[e][2] \in S

\* C21: after the analysis of a unit with at least one normalized
\* instruction, block 0 is retained, every block of block_sigs is reachable
\* from block 0 along retained edges (it lies in every set closed from the
\* entry), every retained edge has both ends in block_sigs, every retained
\* block but block 0 has a retained incoming edge, and
\* cfg_sig.block_count is the number of entries of block_sigs.
C21_RetainedReachable ==
    (CfgDone /\ instrs # <<>>) =>
       /\ 0 \in SigIds
       /\ \A S \in SUBSET SigIds : ClosedFromEntry(S) => S = SigIds
       /\ \A e \in DOMAIN cfg.edges :
             cfg.edges[e][1] \in SigIds /\ cfg.edges[e][2] \in SigIds
       /\ \A id \in SigIds \ {0} : \E e \in DOMAIN cfg.edges : cfg.edges[e][2] = id
       /\ cfg.cfg_sig.block_count = Len(cfg.blocks)

\* a unit of three blocks built, of which the middle one was dropped and
\* the last one is entered by an edge from block 0
C21_Witness ==
    /\ CfgDone
    /\ SigIds = {0, 2}
    /\ \E e \in DOMAIN cfg.edges : cfg.edges[e][1] = 0 /\ cfg.edges[e][2] = 2

\* block_invariants has returned
BlockDone == tool = "block_invariants" /\ pc = "exit"

\* the sum of the deltas of the first j instructions of the block
RECURSIVE PrefixSum(_)
PrefixSum(j) ==
    IF j = 0 THEN 0
    ELSE PrefixSum(j - 1)
         + stack_delta(opc[block[j].opname], block[j].opname, arg_or_0(block[j].arg))

PrefixSums == {PrefixSum(j) : j \in 0..Len(block)}

\* C22: for every block, stack_delta is the sum of the deltas of its
\* instructions, stack_max the greatest and stack_min the least of the
\* prefix sums, the empty prefix included; so stack_min <= 0 <= stack_max
\* and stack_min <= stack_delta <= stack_max.
C22_StackClosure ==
    BlockDone =>
       /\ inv.stack_delta = PrefixSum(Len(block))
       /\ inv.stack_max \in PrefixSums /\ \A x \in PrefixSums : x <= inv.stack_max
       /\ inv.stack_min \in PrefixSums /\ \A x \in PrefixSums : x >= inv.stack_min
       /\ inv.stack_min <= 0 /\ 0 <= inv.stack_max
       /\ inv.stack_min <= inv.stack_delta /\ inv.stack_delta <= inv.stack_max

\* a block whose depth went below and above its entry depth and ended
\* strictly between the extremes
C22_Witness ==
    /\ BlockDone
    /\ inv.stack_min < 0 /\ inv.stack_max > 0
    /\ inv.stack_min < inv.stack_delta /\ inv.stack_delta < inv.stack_max

\* build_cfg has returned the blocks of a unit that has instructions
CfgBuilt == tool = "analyze_code" /\ pc = "retain" /\ instrs # <<>>

\* the instructions of the blocks from the b-th on, one block after another
RECURSIVE BlocksJoined(_)
BlocksJoined(b) ==
    IF b > Len(cfg.blocks) THEN <<>>
    ELSE cfg.blocks[b].instrs \o BlocksJoined(b + 1)

\* the offsets that a jump of the unit names and an instruction has
ResolvableTargets ==
    {instrs[j].argval : j \in {m \in DOMAIN instrs : instrs[m].opname \in JumpOps}}
        \cap {instrs[j].offset : j \in DOMAIN instrs}

\* C23: the blocks of build_cfg partition the normalized instructions:
\* joined in order they are the instruction sequence, so every instruction
\* is in exactly one block and every block is a contiguous run; no block
\* is empty; the ids are 0..n-1 in increasing start offset and block 0
\* starts at the first instruction; only the last instruction of a block
\* is a jump, return or raise; only the first is the target of a jump.
C23_BlocksPartition ==
    CfgBuilt =>
       /\ BlocksJoined(1) = instrs
       /\ cfg.blocks[1].start = instrs[1].offset
       /\ \A b \in DOMAIN cfg.blocks :
             /\ cfg.blocks[b].instrs # <<>>
             /\ cfg.blocks[b].id = b - 1
             /\ cfg.blocks[b].start = cfg.blocks[b].instrs[1].offset
             /\ b > 1 => cfg.blocks[b - 1].start < cfg.blocks[b].start
             /\ \A m \in DOMAIN cfg.blocks[b].instrs :
                   /\ m < Len(cfg.blocks[b].instrs) =>
                         cfg.blocks[b].instrs[m].opname
                             \notin JumpOps \cup RETURN_OPS \cup RAISE_OPS
                   /\ m > 1 => cfg.blocks[b].instrs[m].offset \notin ResolvableTargets

\* a unit of two blocks, the first of two instructions, the second the
\* target of a jump
C23_Witness ==
    /\ CfgBuilt
    /\ Len(cfg.blocks) = 2
    /\ Len(cfg.blocks[1].instrs) = 2
    /\ cfg.blocks[2].start \in ResolvableTargets

\* the walk over the objects has begun
Walking == tool = "analyze_xdis_walk" /\ pc # "start"

\* C24 as stated: the walk analyzes each code object, by identity, at most
\* once (and so ends, also when an object is reachable from itself).
C24_EachObjectOnce ==
    Walking => \A r1, r2 \in DOMAIN out : out[r1].of = out[r2].of => r1 = r2

\* the code objects that are constants of the objects of S
HeapSucc(S) ==
    {code[x[1]][x[2]] : x \in {y \in S \X (1..(MaxConsts + 1)) : y[2] \in DOMAIN code[y[1]]}}
        \cap ObjIds

RECURSIVE HeapClosure(_)
HeapClosure(S) ==
    IF HeapSucc(S) \subseteq S THEN S ELSE HeapClosure(S \cup HeapSucc(S))

\* an object the module reaches is reachable from itself
HeapCyclic == \E id \in HeapClosure({1}) : id \in HeapClosure(HeapSucc({id}))

\* what the code does: nothing is remembered, so the calls follow a chain
\* of constants, and a module with a cycle ends in RecursionError
C24_CycleEndsInRecursionError ==
    Walking =>
       /\ \A d \in 2..Len(frames) :
             \E c \in DOMAIN code[frames[d - 1].obj] :
                code[frames[d - 1].obj][c] = frames[d].obj
       /\ (pc = "exit" /\ HeapCyclic) => failure = "RecursionError"

\* the walk under a fair scheduler, and its end
SpecWalkFair == SpecWalk /\ WF_vars(NextWalk)

C24_WalkEnds == <>(tool = "analyze_xdis_walk" /\ pc = "exit")

\* ddmin is running
InDdmin == tool = "emit_min" /\ pc \in {"ddmin", "test", "same_unit"}

\* how far n is from the number of removable statements
NGap == IF n >= Len(removable) THEN 0 ELSE Len(removable) - n

\* where a pass of the while loop stands, counted down: its begin, then the
\* test of each subset in turn
PassPhase ==
    CASE pc = "ddmin" -> 2 * (MaxBody + 1) + 3
      [] pc = "test" -> 2 * ((MaxBody + 1) - k) + 2
      [] pc = "same_unit" -> 2 * ((MaxBody + 1) - k) + 1
      [] OTHER -> 0

\* a measure of what ddmin has left to do that does not look at the cap:
\* first the removable statements, then the gap of n, then the pass
DdminRank ==
    IF ~InDdmin THEN 0
    ELSE (Len(removable) * (MaxBody + 2) + NGap) * (2 * (MaxBody + 1) + 4) + PassPhase

\* the step that ends a pass of the while loop
PassEnds == pc = "same_unit" /\ pc' \in {"ddmin", "exit"}

\* C25: ddmin terminates: it makes at most max_iter passes, and apart from
\* the cap every step of it lowers a measure that cannot fall for ever,
\* because every pass removes a statement and sets n to 2, or raises n and
\* keeps it at most the number of removable statements, or ends the loop;
\* the removable statements never grow.
C25_DdminProgress ==
    [][InDdmin =>
          /\ iters' <= max_iter
          /\ DdminRank' < DdminRank
          /\ SeqSet(removable') \subseteq SeqSet(removable)
          /\ PassEnds =>
                \/ Len(removable') < Len(removable) /\ n' = 2
                \/ removable' = removable /\ n < n' /\ n' <= Len(removable')
                \/ pc' = "exit"]_vars

\* a search that ended at the finest partition after n was raised and a
\* statement was removed
C25_Witness ==
    /\ tool = "emit_min" /\ pc = "exit" /\ stop = "break"
    /\ iters >= 3
    /\ n > 2
    /\ Len(written[1]) < Len(body)

\* same_unit has returned
SameUnitDone == tool = "same_unit" /\ pc = "exit"

\* the path and index resolve on the original
ResolvesOnOriginal == lib_find_code_by_path(su.orig_code, su.path, su.index) # <<>>

\* C26 as stated, its last part: for a path and index that resolve on the
\* original, same_unit is true whenever the candidate's code objects and
\* instructions are those of the original.
C26_IdenticalIsSame ==
    (SameUnitDone /\ ResolvesOnOriginal
        /\ su.comp_code = su.orig_code /\ su.comp_ver = su.orig_ver) => same[1]

\* what the code does, for a path given whole: the unit of the candidate is
\* the one the path and index resolve to, and same_unit is true exactly
\* when the versions are equal and the two units have lists of equal length
\* whose instructions agree in opname and normalized argrepr
C26_WholePathIff ==
    (SameUnitDone /\ ResolvesOnOriginal /\ su.path[1] = "<module>") =>
       (same[1] <=>
          /\ su.comp_ver = su.orig_ver
          /\ lib_find_code_by_path(su.comp_code, su.path, su.index) # <<>>
          /\ same_instrs(
                lib_find_code_by_path(su.orig_code, su.path, su.index)[1].obj.co_code,
                lib_find_code_by_path(su.comp_code, su.path, su.index)[1].obj.co_code))

\* the summary's minimum and average of the metric are computed
AccumDone == tool = "compare_accum" /\ pc = "exit"

\* C27 as stated, its last part: every min_* value of the summary is at
\* most the avg_* value of the same metric.
C27_MinAtMostAvg == AccumDone => ~float_lt(facc.avg, facc.min)

\* C27, the counts: while compare.main runs its loop over the original's
\* units, the units compared and the units missing add up to the units
\* passed, there is one row for every unit compared, and exact_units
\* counts the rows with exact = true; the summary reports these numbers
C27_Accounting ==
    /\ (tool = "compare" /\ pc = "loop") =>
          /\ acc.total_count + Len(missing) = i
          /\ Len(rows) = acc.total_count
          /\ acc.exact_units = Cardinality({j \in DOMAIN rows : rows[j].exact})
    /\ (tool = "compare" /\ report # <<>>
           /\ "version_mismatch" \notin DOMAIN report[1].summary) =>
          /\ report[1].summary.units_compared + Len(report[1].summary.units_missing)
                = Len(orig_data.units)
          /\ Len(report[1].rows) = report[1].summary.units_compared
          /\ report[1].summary.exact_units
                = Cardinality({j \in DOMAIN report[1].rows : report[1].rows[j].exact})

\* the candidate's units that are in the candidate only: a unit whose path
\* the original has not, or has fewer times
CandidateOnly(ounits, cunits) ==
    {j \in DOMAIN cunits :
        Occurrence(cunits, j)
          > Cardinality({m \in DOMAIN ounits :
                           UnitOf(ounits[m]).path = UnitOf(cunits[j]).path})}

\* the candidate without them
WithoutCandidateOnly(ounits, cunits) ==
    SelectSeq([j \in DOMAIN cunits |-> IF j \in CandidateOnly(ounits, cunits)
                                        THEN "" ELSE cunits[j]],
              LAMBDA u : u # "")

\* what a row of the report holds
ReportRow(row) == [f \in DOMAIN row \ {"oi", "ci"} |-> row[f]]

\* compare.main's loop and report computed at once, as a function of the
\* two unit lists and the thresholds: the loop's variables after the first
\* cnt units of the original
RECURSIVE LoopAfter(_, _, _, _)
LoopAfter(ounits, cunits, a, cnt) ==
    IF cnt = 0
    THEN [comp_seen |-> <<>>, rows |-> <<>>, missing |-> <<>>, acc |-> InitAcc]
    ELSE LET prev == LoopAfter(ounits, cunits, a, cnt - 1)
             unit == UnitOf(ounits[cnt])
             idx == Get0(prev.comp_seen, unit.path)
             candidates == Candidates([j \in DOMAIN cunits |-> UnitOf(cunits[j])],
                                      unit.path)
             seen == (unit.path :> (idx + 1)) @@ prev.comp_seen
         IN IF candidates = <<>> \/ idx >= Len(candidates)
            THEN [prev EXCEPT !.comp_seen = seen,
                              !.missing = Append(prev.missing, unit.path)]
            ELSE LET sc == ScorePair(unit, UnitOf(cunits[PickOther(candidates, idx)]))
                     pa == prev.acc
                 IN [comp_seen |-> seen,
                     missing |-> prev.missing,
                     rows |-> rows_append(prev.rows,
                        [path |-> unit.path, len_orig |-> sc.len_orig,
                         len_comp |-> sc.len_comp, seq_ratio |-> sc.ratio,
                         count_jaccard |-> sc.jac, block_jaccard |-> sc.block_j,
                         edge_jaccard |-> sc.edge_j, semantic_score |-> sc.semantic,
                         exact |-> sc.exact,
                         tier |-> TierOf(sc.exact, sc.meta_mismatch, sc.block_j,
                                         sc.edge_j, a),
                         meta_mismatch |-> sc.meta_mismatch]),
                     acc |-> [total_ratio |-> QAdd(pa.total_ratio, sc.ratio),
                              total_jaccard |-> QAdd(pa.total_jaccard, sc.jac),
                              total_block_j |-> QAdd(pa.total_block_j, sc.block_j),
                              total_edge_j |-> QAdd(pa.total_edge_j, sc.edge_j),
                              total_semantic |-> QAdd(pa.total_semantic, sc.semantic),
                              total_count |-> pa.total_count + 1,
                              min_ratio |-> QMinOf(sc.ratio, pa.min_ratio),
                              min_jaccard |-> QMinOf(sc.jac, pa.min_jaccard),
                              min_block_j |-> QMinOf(sc.block_j, pa.min_block_j),
                              min_edge_j |-> QMinOf(sc.edge_j, pa.min_edge_j),
                              min_semantic |-> QMinOf(sc.semantic, pa.min_semantic),
                              exact_units |-> pa.exact_units
                                                + (IF sc.exact THEN 1 ELSE 0)]]

ReportOf(ounits, cunits, a) ==
    LET fin == LoopAfter(ounits, cunits, a, Len(ounits))
        tc == fin.acc.total_count
        Avg(t) == IF tc # 0 THEN QDivInt(t, tc) ELSE QZero
        MinOr0(m) == IF tc # 0 THEN m ELSE QZero
        avg == [ratio |-> Avg(fin.acc.total_ratio), jaccard |-> Avg(fin.acc.total_jaccard),
                block_j |-> Avg(fin.acc.total_block_j), edge_j |-> Avg(fin.acc.total_edge_j),
                semantic |-> Avg(fin.acc.total_semantic)]
        verdict == VerdictOf(tc, fin.missing, fin.acc.exact_units, avg,
                             fin.acc.min_ratio, a)
    IN [verdict |-> verdict,
        summary |-> [units_compared |-> tc,
                     units_missing |-> fin.missing,
                     avg_seq_ratio |-> avg.ratio, avg_count_jaccard |-> avg.jaccard,
                     avg_block_jaccard |-> avg.block_j, avg_edge_jaccard |-> avg.edge_j,
                     avg_semantic_score |-> avg.semantic,
                     min_seq_ratio |-> MinOr0(fin.acc.min_ratio),
                     min_count_jaccard |-> MinOr0(fin.acc.min_jaccard),
                     min_block_jaccard |-> MinOr0(fin.acc.min_block_j),
                     min_edge_jaccard |-> MinOr0(fin.acc.min_edge_j),
                     min_semantic_score |-> MinOr0(fin.acc.min_semantic),
                     exact_units |-> fin.acc.exact_units, verdict |-> verdict],
        rows |-> fin.rows]

\* C28: with equal versions the report (rows, units_missing, every metric
\* of the summary, the verdict) is the report of the same original against
\* the candidate without its candidate-only units: a unit whose path the
\* original has not, or has fewer times, changes nothing.
C28_CandidateOnlyNoEffect ==
    Reported =>
       \E r \in {ReportOf(orig_data.units,
                          WithoutCandidateOnly(orig_data.units, comp_data.units),
                          args)} :
          /\ report[1].verdict = r.verdict
          /\ report[1].summary = r.summary
          /\ [j \in DOMAIN report[1].rows |-> ReportRow(report[1].rows[j])] = r.rows

\* a verdict of exact for a candidate that has a unit of a path the
\* original has not, or a second unit of a path the original has once
C28_Witness ==
    /\ Reported
    /\ report[1].verdict = "exact"
    /\ \E j \in CandidateOnly(orig_data.units, comp_data.units) :
          \/ \A m \in DOMAIN orig_data.units :
                UnitOf(orig_data.units[m]).path # UnitOf(comp_data.units[j]).path
          \/ Occurrence(comp_data.units, j) = 2

\* both tools have compared the two units
AgreeDone == tool = "locate_mismatch+same_unit" /\ pc = "exit"

\* an instruction of the list has a code object's repr as its argrepr
HasCodeObject(list) == \E j \in DOMAIN list : contains_code_object(list[j].argrepr)

\* C29 as stated: for two units of artifacts of one version found under one
\* path, locate_mismatch reports mismatch_index = null exactly when
\* same_unit is true, also when instructions carry reprs of code objects.
C29_LocateAgreesWithSameUnit ==
    AgreeDone => ((report[1] = None) <=> same[1])

\* C29, what holds: a null mismatch_index implies that same_unit is true,
\* and the two agree on units without code objects among their constants
C29_AgreeOneWay ==
    AgreeDone =>
       /\ (report[1] = None) => same[1]
       /\ (~HasCodeObject(su.orig_instrs) /\ ~HasCodeObject(su.comp_instrs)) =>
             ((report[1] = None) <=> same[1])

\* compare_dir.main is in its loop or past it
InBatch == tool = "compare_dir" /\ pc \in {"loop", "summary", "exit"} /\ failure = "none"

\* the number of files the batch is to process: all, or --limit of them
BatchSize ==
    IF args.limit = 0 THEN Len(batch.pycs) ELSE Min2(args.limit, Len(batch.pycs))

CountOf(verdict) ==
    Cardinality({j \in DOMAIN batch.results : batch.results[j].verdict = verdict})

\* C30: in compare_dir, whatever happens to each file (a report, a timeout,
\* a non-zero exit, invalid JSON, a missing source), the files processed
\* each have exactly one result, in sorted file order; a failure gives the
\* verdict error, a missing source missing_src, and each is counted under
\* its verdict; the batch ends only after the last file or at --limit, with
\* status 0, and the counts add up to summary.total.
C30_BatchIndependence ==
    InBatch =>
       /\ Len(batch.results) = batch.processed
       /\ \A j \in DOMAIN batch.results : batch.results[j].file = batch.pycs[j]
       /\ \A j \in 1..(Len(batch.pycs) - 1) : batch.pycs[j] < batch.pycs[j + 1]
       /\ \A j \in DOMAIN batch.results :
             /\ batch.results[j].outcome \in {"timeout", "nonzero", "invalid_json"}
                  => batch.results[j].verdict = "error"
             /\ batch.results[j].outcome = "missing_src"
                  <=> batch.results[j].verdict = "missing_src"
       /\ pc # "exit" =>
             /\ \A v \in DOMAIN batch.counts : batch.counts[v] = CountOf(v)
             /\ args.limit >= 0 => batch.processed <= BatchSize
       /\ pc = "exit" =>
             /\ exit_code = <<0>>
             /\ \A v \in DOMAIN batch.summary.counts : batch.summary.counts[v] = CountOf(v)
             /\ batch.summary.counts.exact + batch.summary.counts.close
                  + batch.summary.counts.mismatch + batch.summary.counts.error
                  + batch.summary.counts.missing_src = batch.summary.total
             /\ batch.summary.total = Len(batch.results)
             /\ args.limit >= 0 => batch.summary.total = BatchSize

\* a batch of three files that ended: the first timed out, the second has
\* no source, the third was compared and is exact
C30_Witness ==
    /\ InBatch /\ pc = "exit"
    /\ Len(batch.results) = 3
    /\ batch.results[1].outcome = "timeout"
    /\ batch.results[2].outcome = "missing_src"
    /\ batch.results[3].verdict = "exact"
    /\ batch.summary.total = 3

=============================================================================
